---- MODULE Spec2Model ----
(***************************************************************************)
(* Open Commander.  Specification Spec: the session service                *)
(* (sessionService.start / stop), the project router's cascade stop        *)
(* (delete, toggleShare) and the container engine they drive.              *)
(* ProxySpec: the WebSocket proxy's /terminal/:sessionId bridge.           *)
(* BroadcastSpec: the session and presence broadcasters.  ForwardSpec: the *)
(* front-door forwarder.  HookSpec and RefsHookSpec: the browser hooks     *)
(* usePresenceWebSocket and useSessionsWebSocket.  StatusSpec: the         *)
(* presence status computed from the last interaction.  PaneSpec: the      *)
(* terminal pane's startSession retry loop and its socket.  GitSpec:       *)
(* gitService.cloneOrPull.  ProxyFairSpec: ProxySpec with the progress     *)
(* its timers guarantee.  Every await of the TypeScript source and every   *)
(* event callback is one step, so concurrent calls and socket events       *)
(* interleave exactly where the event loop lets them.                      *)
(***************************************************************************)

EXTENDS Integers, Sequences, FiniteSets, TLC

\* ---------------------------------------------------------------- bounds
MaxCalls == 2            \* invocations issued in one behaviour
MaxFrames == 3           \* frames the client sends on one /terminal socket
MaxNotifies == 2         \* notify calls issued in one behaviour
MaxListeners == 3        \* listeners the two emitters hold at a time
MaxPieces == 3           \* pieces of text in the first chunk of a connection
MaxLater == 2            \* chunks a client sends after the first
MaxEffects == 2          \* connecting runs of a hook's effect in one behaviour
MaxRetries == 7          \* reconnects scheduled without an open between
MaxWindows == 5          \* the clock runs for this many active windows
MaxStarts == 2           \* startSession calls in one behaviour
MaxTyped == 1            \* terminal events (key strokes, resizes) of the user
\* Longest repository string passed to cloneOrPull.
MaxChars == 5

\* ------------------------------------------------------ program constants
MAX_LAYER_RETRIES == 5
maxAttempts == 10        \* connectToContainerWs
MAX_RETRY_DELAY_MS == 30000
ACTIVE_THRESHOLD_MS == 30000
VIEWING_THRESHOLD_MS == 120000            \* 2 * 60_000
maxOuterAttempts == 5    \* startSession

\* ------------------------------------------------------------- universes
Procs == {1, 2}                       \* concurrent request handlers
Users == {"u1", "u2"}
Sessions == {"s1", "s2"}
Pid == "pr1"
Null == "null"
NoSession == "-"

Owner == "u1"                          \* owner of project pr1
SessionOwner(s) == IF s = "s1" THEN "u1" ELSE "u2"

\* sessions for which start and stop requests arrive; s2, the session of the
\* non-owner u2, takes part through the cascade stops of delete / toggleShare
StartSessions == {"s1"}

\* an id no row of the store has; start is also requested for it
NoSuchSession == "s0"
StartIds == StartSessions \cup {NoSuchSession}

\* workspaceSuffix inputs, as character sequences: a directory name and a
\* path traversal
Suffixes == { <<"w", "s">>, <<".", ".">> }

VARIABLES
  sessions,    \* store: terminalSession rows
  project,     \* store: the project row
  container,   \* engine: state of each agent container, by name
  pc,          \* position of each handler
  arg,         \* arguments of the call a handler is serving
  probe1,      \* start: result of the first isRunning probe
  probe2,      \* start: result of the re-probe
  attempt,     \* start: create-loop counter
  row,         \* start: status of the session row loaded
  proj,        \* start: projectId of the row returned by update
  todo,        \* delete / toggleShare: sessions found, sessions still to stop
  cur,         \* session whose stop() is executing
  log,         \* driver calls, store writes and notifications of the call
  wrote,       \* what the call wrote to the session row
  result,      \* value returned by the call
  err,         \* error kind the call failed with
  calls,       \* invocations issued so far
  bpc,         \* /terminal handler: position
  conn,        \* /terminal handler: resolved user id and session id
  client,      \* client socket: state, close code and reason
  upstream,    \* upstream socket to the container's terminal daemon
  tries,       \* connectToContainerWs: attempt
  sent,        \* frames the client has sent so far (numbered 1, 2, ...)
  buffer,      \* clientMessageBuffer
  delivered,   \* frames sent to the upstream, in order
  lost,        \* frames that reached no listener or a closed upstream
  wire,        \* connectToContainerWs: connections tried and sleeps, in order
  emitter,     \* the listeners of each broadcaster's emitter, by event name
  note,        \* the last notify: listeners at the call, handlers invoked
  notified,    \* notify calls issued so far
  fpc,         \* forwarder: position of the connection handler
  chunk,       \* forwarder: the first chunk of the connection
  port,        \* forwarder: the port the connection was routed to
  later,       \* forwarder: chunks the client sent after the first
  held,        \* forwarder: later chunks the client socket holds unread
  received,    \* forwarder: chunks written to the target (0: the first)
  hook,        \* hooks: which hook the component uses
  mounted,     \* hooks: "no", "yes" or "gone" (unmounted)
  props,       \* hooks: projectId, sessionId, enabled of the last render
  gen,         \* hooks: connecting runs of the effect so far
  active,      \* hooks: the last run of the effect returned a cleanup
  eff,         \* hooks: projectId in the closure of each run
  ws,          \* hooks: readyState of the latest WebSocket of each run
  cells,       \* hooks: closed, retryTimer, retryDelay, heartbeatInterval
  pending,     \* hooks: runs whose retry timer is armed
  intervals,   \* hooks: runs whose heartbeat interval is armed
  socketRef,   \* hooks: socketRef.current (the run whose socket it is)
  sessionIdRef, \* hooks: sessionIdRef.current
  list,        \* hooks: the state returned to the component
  fails,       \* hooks: reconnects a run scheduled since its last open
  lastDelay,   \* hooks: delay of the retry timer a run armed last
  cleaned,     \* hooks: runs whose cleanup has run
  beat,        \* hooks: sessionId of the heartbeat the last step sent
  now,         \* stat: Date.now(), in ms
  lastInteractionRef, \* stat: lastInteractionRef.current
  status,      \* stat: result of the last computeStatus call
  elapsed,      \* stat: Date.now() - lastInteractionMs of the last call
  mountedRef,  \* pane: mountedRef.current
  terminalRef, \* pane: terminalRef.current is set
  connectionIdRef, \* pane: connectionIdRef.current
  statusRef,   \* pane: statusRef.current, the status reported
  errorRef,    \* pane: errorRef.current, the error message reported
  sessionEndedRef, \* pane: sessionEndedRef.current
  paneSocket,  \* pane: the call whose socket socketRef.current is, 0 for null
  ppc,         \* pane: position of each startSession call
  outer,       \* pane: loop variable attempt of each startSession call
  paused,      \* pane: delay of the wait a call is in or was in last
  sock,        \* pane: readyState of the socket each call opened
  handlers,    \* pane: calls whose socket has onerror, onclose, onmessage set
  frames,      \* pane: frames sent on the socket of each call
  disposables, \* pane: terminalDisposablesRef.current is not empty
  refresh,     \* pane: calls whose 200 ms resize refresh timer is armed
  written,     \* pane: the call whose socket's output is on the terminal
  typed,        \* pane: terminal events (onData, onResize) so far
  gpc,         \* git: position of the cloneOrPull call
  repository,  \* git: its argument, a string as a sequence of characters
  repoPath,    \* git: the path getRepoPath returned, a sequence of segments
  dir,         \* git: what the file system holds at repoPath
  ops          \* git: the file-system operations performed, in order

service == << sessions, project, container, pc, arg, probe1, probe2, attempt,
              row, proj, todo, cur, log, wrote, result, err, calls >>

bridge == << bpc, conn, client, upstream, tries, sent, buffer, delivered,
             lost, wire >>

bcast == << emitter, note, notified >>

fwd == << fpc, chunk, port, later, held, received >>

hooks == << hook, mounted, props, gen, active, eff, ws, cells, pending,
           intervals, socketRef, sessionIdRef, list, fails, lastDelay,
           cleaned, beat >>

stat == << now, lastInteractionRef, status, elapsed >>

pane == << mountedRef, terminalRef, connectionIdRef, statusRef, errorRef,
          sessionEndedRef, paneSocket, ppc, outer, paused, sock, handlers,
          frames, disposables, refresh, written, typed >>

git == << gpc, repository, repoPath, dir, ops >>

vars == << service, bridge, bcast, fwd, hooks, stat, pane, git >>

\* what the handlers of one component leave alone: the other components
offService == << bridge, bcast, fwd, hooks, stat, pane, git >>
offBridge == << service, bcast, fwd, hooks, stat, pane, git >>
offBcast == << service, bridge, fwd, hooks, stat, pane, git >>
offFwd == << service, bridge, bcast, hooks, stat, pane, git >>
offHooks == << service, bridge, bcast, fwd, stat, pane, git >>
offStat == << service, bridge, bcast, fwd, hooks, pane, git >>
offPane == << service, bridge, bcast, fwd, hooks, stat, git >>
offGit == << service, bridge, bcast, fwd, hooks, stat, pane >>

locals == << probe1, probe2, attempt, row, proj, todo, cur >>
store == << sessions, project >>

\* ------------------------------------------------------- pure functions

\* sessionContainerNames(sessionId): the names derived from a session id.
AgentContainer(s) == "oc-sess-" \o s

Names == { AgentContainer(s) : s \in Sessions }

\* String.prototype.includes on character sequences.
Includes(str, sub) ==
  \E i \in 1..(Len(str) - Len(sub) + 1) :
     \A j \in 1..Len(sub) : str[i + j - 1] = sub[j]

\* String.prototype.trim (spaces only).
RECURSIVE TrimLeft(_)
TrimLeft(str) ==
  IF str # <<>> /\ Head(str) = " " THEN TrimLeft(Tail(str)) ELSE str

RECURSIVE TrimRight(_)
TrimRight(str) ==
  IF str # <<>> /\ str[Len(str)] = " "
  THEN TrimRight(SubSeq(str, 1, Len(str) - 1)) ELSE str

Trim(str) == TrimRight(TrimLeft(str))

\* resolveWorkspaceMount up to the fs.stat: "root", "invalid" or "candidate".
ResolveWorkspaceMount(suffix) ==
  LET trimmed == Trim(suffix) IN
  IF trimmed = <<>> THEN "root"
  ELSE IF Includes(trimmed, <<".", ".">>) \/ Includes(trimmed, <<"/">>)
          \/ Includes(trimmed, <<"\\">>)
       THEN "invalid"
       ELSE "candidate"

\* start, lines 386-395: the short-circuit on an already started session.
ShortCircuitStatusesStartingOnly == {"starting"}

ShortCircuitStatuses == {"starting", "running"}

ShortCircuitNoGuard(reset, found) == found

ShortCircuit(reset, found) == ~reset /\ found

ExistingSession(u, s) ==
  /\ s \in DOMAIN sessions
  /\ sessions[s].userId = u /\ sessions[s].status \in ShortCircuitStatuses

\* start, lines 397-405: the session is missing for this user, or stopped.
SessionNotFoundIgnoreStopped(u, s) ==
  s \notin DOMAIN sessions \/ sessions[s].userId # u

SessionNotFound(u, s) ==
  \/ s \notin DOMAIN sessions
  \/ sessions[s].userId # u
  \/ sessions[s].status = "stopped"

\* start, lines 410, 500-504: what to do for the probed container state.
LaunchStepNoRestart(running, reset) ==
  IF running = "null" THEN "resolve"
  ELSE IF running = "false" THEN "dstart"
  ELSE "reprobe"

LaunchStep(running, reset) ==
  IF running = "null" THEN "resolve"
  ELSE IF reset THEN "restart"
  ELSE IF running = "false" THEN "dstart"
  ELSE "reprobe"

\* start, line 507: !sessionRunning, for a probe result null, false or true.
NotRunningOnlyMissing(sessionRunning) == sessionRunning = "null"

NotRunning(sessionRunning) == sessionRunning # "true"

\* start, line 471: the loop condition (launched is false when evaluated).
LoopContinues(a) == a <= MAX_LAYER_RETRIES

\* start, line 493: a locked failure is retried.
RetryLockedInclusive(a) == a <= MAX_LAYER_RETRIES

RetryLocked(a) == a < MAX_LAYER_RETRIES

\* ------------------------------------------------ container engine (driver)

IsRunning(name) ==
  CASE container[name] = "missing" -> "null"
    [] container[name] = "stopped" -> "false"
    [] container[name] = "running" -> "true"

RunOutcomes(name) ==
  IF container[name] = "missing" THEN {"ok", "locked", "other"}
  ELSE {"conflict", "locked", "other"}

StartOutcomes(name) ==
  IF container[name] = "missing" THEN {"fail"} ELSE {"ok", "fail"}

RemoveOutcomes(name) ==
  IF container[name] = "missing" THEN {"nosuch"} ELSE {"ok", "other"}

SafeRemoveOutcomes(name) ==
  IF container[name] = "missing" THEN {"ok"} ELSE {"ok", "fail"}

\* --------------------------------------------------------------- initial

NoArg == [op |-> "none", userId |-> Null, sessionId |-> NoSession,
          reset |-> FALSE, shared |-> FALSE, workspaceSuffix |-> <<>>]

NoResult == [none |-> TRUE]

NoTodo == [found |-> {}, left |-> {}]

\* createSession (project router, lines 161-168): a new row is pending, in
\* the project, without containerName.
NewSession(s) ==
  [userId |-> SessionOwner(s), projectId |-> Pid, status |-> "pending",
   containerName |-> Null]

\* The row and container that start(SessionOwner(s), s) leaves (lines 531-537).
StartedSession(s) ==
  [userId |-> SessionOwner(s), projectId |-> Pid, status |-> "running",
   containerName |-> AgentContainer(s)]

\* The row that toggleShare(shared=false) leaves of a started session of a
\* non-owner (project router, lines 280-287).
UnsharedSession(s) ==
  [userId |-> SessionOwner(s), projectId |-> Null, status |-> "stopped",
   containerName |-> AgentContainer(s)]

NoConn == [userId |-> Null, sessionId |-> NoSession]
NoClose == [state |-> "none", code |-> 0, reason |-> ""]

\* No /terminal connection has been made.
BridgeIdle ==
  /\ bpc = "idle"
  /\ conn = NoConn
  /\ client = NoClose
  /\ upstream = "none"
  /\ tries = 0
  /\ sent = 0
  /\ buffer = <<>>
  /\ delivered = <<>>
  /\ lost = {}
  /\ wire = <<>>

\* The two broadcasters (session-broadcaster.ts, presence-broadcaster.ts),
\* the project ids of their topics and the handlers subscribed to them.
Emitters == {"sessions", "presence"}
ProjectIds == {"pr1", "pr2"}
Handlers == {"h1", "h2"}

\* the event name `sessions:${projectId}` / `presence:${projectId}`
Topic(e, projectId) == << e, projectId >>
Topics == { Topic(e, projectId) : e \in Emitters, projectId \in ProjectIds }

NoNote == [emitter |-> Null, projectId |-> Null, subs |-> <<>>,
           ran |-> <<>>, threw |-> FALSE]

\* lines 20-25: a new emitter has no listeners.
BroadcastIdle ==
  /\ emitter = [tp \in Topics |-> <<>>]
  /\ note = NoNote
  /\ notified = 0

\* The presence hook has just been rendered: lastInteractionRef =
\* useRef(Date.now()) (part_001 line 50), no status computed yet.
StatusIdle ==
  /\ now = 0
  /\ lastInteractionRef = 0
  /\ status = Null
  /\ elapsed = 0

\* startSession calls of the terminal pane
Starts == 1..MaxStarts

\* The terminal pane has been mounted with a sessionId; no startSession
\* call has been made yet and the terminal is still loading.
PaneIdle ==
  /\ mountedRef = TRUE
  /\ terminalRef = FALSE
  /\ connectionIdRef = 0
  /\ statusRef = "idle"
  /\ errorRef = Null
  /\ sessionEndedRef = FALSE
  /\ paneSocket = 0
  /\ ppc = [c \in Starts |-> "idle"]
  /\ outer = [c \in Starts |-> 0]
  /\ paused = [c \in Starts |-> 0]
  /\ sock = [c \in Starts |-> "none"]
  /\ handlers = {}
  /\ frames = [c \in Starts |-> <<>>]
  /\ disposables = FALSE
  /\ refresh = {}
  /\ written = 0
  /\ typed = 0

\* gitService.cloneOrPull has not been called.
GitIdle ==
  /\ gpc = "idle"
  /\ repository = <<>>
  /\ repoPath = <<>>
  /\ dir = "absent"
  /\ ops = <<>>

\* The forwarder has accepted no connection.
ForwarderIdle ==
  /\ fpc = "idle"
  /\ chunk = <<>>
  /\ port = 0
  /\ later = 0
  /\ held = <<>>
  /\ received = <<>>

\* The hooks: usePresenceWebSocket with per-effect locals (part_001),
\* useSessionsWebSocket, and usePresenceWebSocket with shared refs
\* (use-presence-websocket.ts).
Hooks == {"presence", "sessions", "presenceRefs"}
HookProjects == {"pA", "pB"}
HookSessionIds == {"sA", "sB"}
Gens == 1..MaxEffects

\* the arguments of a render; useSessionsWebSocket has no sessionId, and
\* the hook of use-presence-websocket.ts is rendered without one
Props == { a \in [projectId : HookProjects \cup {Null},
                  sessionId : HookSessionIds \cup {Null},
                  enabled : BOOLEAN] :
             ~a.enabled => a.projectId = "pA" }
NoProps == [projectId |-> Null, sessionId |-> Null, enabled |-> FALSE]

\* the state a hook returns: an array of entries, or whatever other value
\* JSON.parse returned
EmptyList == [array |-> TRUE, items |-> <<>>]

\* closed / retryTimer / retryDelay / heartbeatInterval as an effect run
\* starts with them (part_001 lines 111-114, use-sessions 189-191,
\* use-presence-websocket.ts lines 50-56)
FreshCell == [closed |-> FALSE, retryTimer |-> 0, retryDelay |-> 1000,
              heartbeatInterval |-> 0]

\* The component that uses the hook is not mounted.
HooksUnmounted ==
  /\ mounted = "no"
  /\ props = NoProps
  /\ gen = 0
  /\ active = FALSE
  /\ eff = [g \in Gens |-> Null]
  /\ ws = [g \in Gens |-> "none"]
  /\ cells = [c \in 0..MaxEffects |-> FreshCell]
  /\ pending = {}
  /\ intervals = {}
  /\ socketRef = 0
  /\ sessionIdRef = Null
  /\ list = EmptyList
  /\ fails = [g \in Gens |-> 0]
  /\ lastDelay = [g \in Gens |-> 0]
  /\ cleaned = {}
  /\ beat = Null

HooksIdle == hook = "presence" /\ HooksUnmounted

\* No handler of the session service or of the project router is running.
ServiceIdle ==
  /\ pc = [p \in Procs |-> "idle"]
  /\ arg = [p \in Procs |-> NoArg]
  /\ probe1 = [p \in Procs |-> "none"]
  /\ probe2 = [p \in Procs |-> "none"]
  /\ attempt = [p \in Procs |-> 0]
  /\ row = [p \in Procs |-> Null]
  /\ proj = [p \in Procs |-> Null]
  /\ todo = [p \in Procs |-> NoTodo]
  /\ cur = [p \in Procs |-> NoSession]
  /\ log = [p \in Procs |-> <<>>]
  /\ wrote = [p \in Procs |-> NoResult]
  /\ result = [p \in Procs |-> NoResult]
  /\ err = [p \in Procs |-> "none"]
  /\ calls = 0

\* The store with both sessions of the shared project pr1 started.
StoreStarted ==
  /\ sessions = [s \in Sessions |-> StartedSession(s)]
  /\ container = [n \in Names |->
        IF \E s \in Sessions : n = AgentContainer(s)
        THEN "running" ELSE "missing"]
  /\ project = [exists |-> TRUE, shared |-> TRUE, userId |-> Owner]

\* Both sessions were created in the shared project pr1; s2 was started by
\* its owner u2, s1 is new or was started by its owner u1.
Init ==
  /\ \E started \in {{"s2"}, {"s1", "s2"}} :
       /\ sessions = [s \in Sessions |->
             IF s \in started THEN StartedSession(s) ELSE NewSession(s)]
       /\ container = [n \in Names |->
             IF \E s \in started : n = AgentContainer(s)
             THEN "running" ELSE "missing"]
  /\ project = [exists |-> TRUE, shared |-> TRUE, userId |-> Owner]
  /\ ServiceIdle
  /\ BridgeIdle
  /\ BroadcastIdle
  /\ ForwarderIdle
  /\ GitIdle
  /\ PaneIdle
  /\ StatusIdle
  /\ HooksIdle

\* ------------------------------------------------------------- helpers

Free(p) == pc[p] \in {"idle", "done", "failed"}

Goto(p, l) == pc' = [pc EXCEPT ![p] = l]

Logged(p, es) == log' = [log EXCEPT ![p] = @ \o es]

\* The calls of a stop, for the log of its caller: the project router
\* discards outcome and error of each stop of a cascade (.catch(() => {})),
\* so its log holds the router's own writes and notifications only.
StopLogged(p, es) ==
  IF arg[p].op = "stop" THEN Logged(p, es) ELSE UNCHANGED log

Throw(p, kind) ==
  /\ pc' = [pc EXCEPT ![p] = "failed"]
  /\ err' = [err EXCEPT ![p] = kind]

\* A request is served by the first free handler (handlers are
\* interchangeable); serving it resets the handler's locals.
Begin(p, a) ==
  /\ Free(p)
  /\ \A q \in Procs : Free(q) => p <= q
  /\ calls < MaxCalls
  /\ calls' = calls + 1
  /\ arg' = [arg EXCEPT ![p] = a]
  /\ probe1' = [probe1 EXCEPT ![p] = "none"]
  /\ probe2' = [probe2 EXCEPT ![p] = "none"]
  /\ attempt' = [attempt EXCEPT ![p] = 0]
  /\ row' = [row EXCEPT ![p] = Null]
  /\ proj' = [proj EXCEPT ![p] = Null]
  /\ todo' = [todo EXCEPT ![p] = NoTodo]
  /\ log' = [log EXCEPT ![p] = <<>>]
  /\ wrote' = [wrote EXCEPT ![p] = NoResult]
  /\ result' = [result EXCEPT ![p] = NoResult]
  /\ err' = [err EXCEPT ![p] = "none"]

Name(p) == AgentContainer(arg[p].sessionId)

\* ------------------------------------------------- sessionService.start

\* The start calls issued: the owner's calls for the session with every
\* reset and workspaceSuffix, the calls of another user, and a call for an
\* id without row; the latter two with the directory suffix, which they
\* never read.  Every call supplies gitBranch.
StartCalls ==
  { c \in [userId : Users, sessionId : StartIds, reset : BOOLEAN,
           workspaceSuffix : Suffixes] :
      /\ c.sessionId = NoSuchSession => (c.userId = Owner /\ ~c.reset)
      /\ (c.sessionId = NoSuchSession \/ c.userId # Owner)
           => c.workspaceSuffix = <<"w", "s">> }

\* A handler is invoked with start(userId, sessionId, options).
CallStart(p) ==
  \E c \in StartCalls :
    /\ Begin(p, [op |-> "start", userId |-> c.userId,
                 sessionId |-> c.sessionId, reset |-> c.reset,
                 shared |-> FALSE, workspaceSuffix |-> c.workspaceSuffix])
    /\ Goto(p, "sc")
    /\ cur' = [cur EXCEPT ![p] = c.sessionId]
    /\ UNCHANGED << store, container >>
    /\ UNCHANGED offService

\* lines 383-395: unless reset, findUnique({id, userId, status in {starting,
\* running}}) and the early return of its containerName.
StartShortCircuit(p) ==
  /\ pc[p] = "sc"
  /\ IF ShortCircuit(arg[p].reset,
                     ExistingSession(arg[p].userId, arg[p].sessionId))
     THEN /\ result' = [result EXCEPT ![p] =
                 [containerName |-> sessions[arg[p].sessionId].containerName]]
          /\ Goto(p, "done")
     ELSE /\ Goto(p, "load")
          /\ UNCHANGED result
  /\ UNCHANGED << store, container, arg, locals, log, wrote, err, calls >>
  /\ UNCHANGED offService

\* lines 397-405: findUnique({id, userId}); NOT_FOUND if missing or stopped.
StartLoad(p) ==
  /\ pc[p] = "load"
  /\ IF SessionNotFound(arg[p].userId, arg[p].sessionId)
     THEN /\ Throw(p, "NOT_FOUND")
          /\ UNCHANGED row
     ELSE /\ Goto(p, "probe")
          /\ row' = [row EXCEPT ![p] = sessions[arg[p].sessionId].status]
          /\ UNCHANGED err
  /\ UNCHANGED << store, container, arg, probe1, probe2, attempt, proj, todo,
                  cur, log, wrote, result, calls >>
  /\ UNCHANGED offService

\* lines 407-410, 500-504: isRunning(agentContainer) and the branch on it.
StartProbe(p) ==
  /\ pc[p] = "probe"
  /\ probe1' = [probe1 EXCEPT ![p] = IsRunning(Name(p))]
  /\ Goto(p, LaunchStep(IsRunning(Name(p)), arg[p].reset))
  /\ UNCHANGED << store, container, arg, probe2, attempt, row, proj, todo,
                  cur, log, wrote, result, err, calls >>
  /\ UNCHANGED offService

StartPrepareNoPull(p) ==
  /\ pc[p] = "resolve"
  /\ attempt' = [attempt EXCEPT ![p] = 0]
  /\ \E isDirectory \in BOOLEAN, netOk \in BOOLEAN :
       LET r == ResolveWorkspaceMount(arg[p].workspaceSuffix) IN
       IF r = "invalid" \/ (r = "candidate" /\ ~isDirectory)
       THEN Throw(p, "BAD_REQUEST") /\ UNCHANGED log
       ELSE IF netOk
            THEN /\ Goto(p, "run")
                 /\ Logged(p, <<"ensureNetwork">>)
                 /\ UNCHANGED err
            ELSE Throw(p, "DRIVER") /\ Logged(p, <<"ensureNetwork!">>)
  /\ UNCHANGED << store, container, arg, probe1, probe2, row, proj, todo, cur,
                  wrote, result, calls >>
  /\ UNCHANGED offService

\* lines 411-455: resolveWorkspaceMount (with its fs.stat), the mounts,
\* ensureNetwork and pull(IMAGE); none of them reads or writes a container,
\* so they are one step.  The create loop then starts with attempt = 0.
StartPrepare(p) ==
  /\ pc[p] = "resolve"
  /\ attempt' = [attempt EXCEPT ![p] = 0]
  /\ \E isDirectory \in BOOLEAN, o \in {"ok", "ensureNetwork", "pull"} :
       LET r == ResolveWorkspaceMount(arg[p].workspaceSuffix) IN
       IF r = "invalid" \/ (r = "candidate" /\ ~isDirectory)
       THEN Throw(p, "BAD_REQUEST") /\ UNCHANGED log
       ELSE CASE o = "ensureNetwork" ->
                   Throw(p, "DRIVER") /\ Logged(p, <<"ensureNetwork!">>)
              [] o = "pull" ->
                   /\ Throw(p, "DRIVER")
                   /\ Logged(p, <<"ensureNetwork", "pull!">>)
              [] o = "ok" ->
                   /\ Goto(p, "run")
                   /\ Logged(p, <<"ensureNetwork", "pull">>)
                   /\ UNCHANGED err
  /\ UNCHANGED << store, container, arg, probe1, probe2, row, proj, todo, cur,
                  wrote, result, calls >>
  /\ UNCHANGED offService

\* lines 471-498: one iteration of the create loop, up to the next call of
\* the driver; a retried layer lock sleeps 5 s and increments attempt.  The
\* loop is left without a launch when its condition fails.
StartRun(p) ==
  /\ pc[p] = "run"
  /\ IF ~LoopContinues(attempt[p])
     THEN /\ Goto(p, "reprobe")
          /\ UNCHANGED << container, log, err, attempt >>
     ELSE \E o \in RunOutcomes(Name(p)) :
       CASE o = "ok" ->
              /\ container' = [container EXCEPT ![Name(p)] = "running"]
              /\ Logged(p, <<"run">>)
              /\ Goto(p, "reprobe")
              /\ UNCHANGED << err, attempt >>
         [] o = "conflict" ->
              /\ Logged(p, <<"run!conflict">>)
              /\ Goto(p, "cstart")
              /\ UNCHANGED << container, err, attempt >>
         [] o = "locked" ->
              /\ IF RetryLocked(attempt[p])
                 THEN /\ Logged(p, <<"run!locked", "sleep">>)
                      /\ attempt' = [attempt EXCEPT ![p] = @ + 1]
                      /\ UNCHANGED << pc, err >>
                 ELSE /\ Throw(p, "DRIVER")
                      /\ Logged(p, <<"run!locked">>)
                      /\ UNCHANGED attempt
              /\ UNCHANGED container
         [] o = "other" ->
              /\ Throw(p, "DRIVER")
              /\ Logged(p, <<"run!other">>)
              /\ UNCHANGED << container, attempt >>
  /\ UNCHANGED << store, arg, probe1, probe2, row, proj, todo, cur, wrote,
                  result, calls >>
  /\ UNCHANGED offService

StartConflictStartRelaunch(p) ==
  /\ pc[p] = "cstart"
  /\ \E o \in StartOutcomes(Name(p)) :
       IF o = "ok"
       THEN /\ container' = [container EXCEPT ![Name(p)] = "running"]
            /\ Logged(p, <<"start">>)
            /\ attempt' = [attempt EXCEPT ![p] = @ + 1]
            /\ Goto(p, "run")
       ELSE /\ Logged(p, <<"start!">>)
            /\ Goto(p, "csafe")
            /\ UNCHANGED << container, attempt >>
  /\ UNCHANGED << store, arg, probe1, probe2, row, proj, todo, cur, wrote,
                  result, err, calls >>
  /\ UNCHANGED offService

\* lines 482-485: name conflict, try to start the existing container.
StartConflictStart(p) ==
  /\ pc[p] = "cstart"
  /\ \E o \in StartOutcomes(Name(p)) :
       IF o = "ok"
       THEN /\ container' = [container EXCEPT ![Name(p)] = "running"]
            /\ Logged(p, <<"start">>)
            /\ Goto(p, "reprobe")
       ELSE /\ Logged(p, <<"start!">>)
            /\ Goto(p, "csafe")
            /\ UNCHANGED container
  /\ UNCHANGED << store, arg, locals, wrote, result, err, calls >>
  /\ UNCHANGED offService

\* line 486: safeRemove of the conflicting container.
StartConflictRemove(p) ==
  /\ pc[p] = "csafe"
  /\ \E o \in SafeRemoveOutcomes(Name(p)) :
       IF o = "ok"
       THEN /\ container' = [container EXCEPT ![Name(p)] = "missing"]
            /\ Logged(p, <<"safeRemove">>)
            /\ Goto(p, "crun")
            /\ UNCHANGED err
       ELSE /\ Throw(p, "DRIVER")
            /\ Logged(p, <<"safeRemove!">>)
            /\ UNCHANGED container
  /\ UNCHANGED << store, arg, locals, wrote, result, calls >>
  /\ UNCHANGED offService

\* lines 487-492: ensureNetwork again and the one further run; a failure of
\* either leaves start with that error, a success sets launched.
StartConflictRun(p) ==
  /\ pc[p] = "crun"
  /\ \E netOk \in BOOLEAN, o \in RunOutcomes(Name(p)) :
       IF ~netOk
       THEN /\ Throw(p, "DRIVER")
            /\ Logged(p, <<"ensureNetwork!">>)
            /\ UNCHANGED container
       ELSE IF o = "ok"
            THEN /\ container' = [container EXCEPT ![Name(p)] = "running"]
                 /\ Logged(p, <<"ensureNetwork", "run">>)
                 /\ Goto(p, "reprobe")
                 /\ UNCHANGED err
            ELSE /\ Throw(p, "DRIVER")
                 /\ Logged(p, <<"ensureNetwork", "run!" \o o>>)
                 /\ UNCHANGED container
  /\ UNCHANGED << store, arg, locals, wrote, result, calls >>
  /\ UNCHANGED offService

\* lines 500-501: restart of the existing container.
StartRestart(p) ==
  /\ pc[p] = "restart"
  /\ \E o \in StartOutcomes(Name(p)) :
       IF o = "ok"
       THEN /\ container' = [container EXCEPT ![Name(p)] = "running"]
            /\ Logged(p, <<"restart">>)
            /\ Goto(p, "reprobe")
            /\ UNCHANGED err
       ELSE /\ Throw(p, "DRIVER")
            /\ Logged(p, <<"restart!">>)
            /\ UNCHANGED container
  /\ UNCHANGED << store, arg, locals, wrote, result, calls >>
  /\ UNCHANGED offService

\* lines 502-503: start of the existing, stopped container.
StartDriverStart(p) ==
  /\ pc[p] = "dstart"
  /\ \E o \in StartOutcomes(Name(p)) :
       IF o = "ok"
       THEN /\ container' = [container EXCEPT ![Name(p)] = "running"]
            /\ Logged(p, <<"start">>)
            /\ Goto(p, "reprobe")
            /\ UNCHANGED err
       ELSE /\ Throw(p, "DRIVER")
            /\ Logged(p, <<"start!">>)
            /\ UNCHANGED container
  /\ UNCHANGED << store, arg, locals, wrote, result, calls >>
  /\ UNCHANGED offService

StartReprobeNoThrow(p) ==
  /\ pc[p] = "reprobe"
  /\ probe2' = [probe2 EXCEPT ![p] = IsRunning(Name(p))]
  /\ Goto(p, "update")
  /\ UNCHANGED << store, container, arg, probe1, attempt, row, proj, todo,
                  cur, log, wrote, result, err, calls >>
  /\ UNCHANGED offService

\* lines 506-512: the re-probe; not running is INTERNAL_SERVER_ERROR.
StartReprobe(p) ==
  /\ pc[p] = "reprobe"
  /\ probe2' = [probe2 EXCEPT ![p] = IsRunning(Name(p))]
  /\ IF NotRunning(IsRunning(Name(p)))
     THEN Throw(p, "NOT_RUNNING")
     ELSE Goto(p, "update") /\ UNCHANGED err
  /\ UNCHANGED << store, container, arg, probe1, attempt, row, proj, todo,
                  cur, log, wrote, result, calls >>
  /\ UNCHANGED offService

\* the update writes the status and leaves containerName as stored
StartUpdateStatusOnly(p) ==
  /\ pc[p] = "update"
  /\ sessions' = [sessions EXCEPT ![arg[p].sessionId] =
        [@ EXCEPT !.status = "running"]]
  /\ wrote' = [wrote EXCEPT ![p] =
        [containerName |-> Name(p), status |-> "running"]]
  /\ Logged(p, <<"exec", "update">>)
  /\ proj' = [proj EXCEPT ![p] = sessions[arg[p].sessionId].projectId]
  /\ Goto(p, "notify")
  /\ UNCHANGED << project, container, arg, probe1, probe2, attempt, row, todo,
                  cur, result, err, calls >>
  /\ UNCHANGED offService

\* lines 514-537: the best-effort git checkout of the gitBranch given (its
\* failure is only logged), then update({id, userId}, {containerName,
\* status: "running"}), which returns the updated row.
StartUpdate(p) ==
  /\ pc[p] = "update"
  /\ sessions' = [sessions EXCEPT ![arg[p].sessionId] =
        [@ EXCEPT !.containerName = Name(p), !.status = "running"]]
  /\ wrote' = [wrote EXCEPT ![p] =
        [containerName |-> Name(p), status |-> "running"]]
  /\ Logged(p, <<"exec", "update">>)
  /\ proj' = [proj EXCEPT ![p] = sessions[arg[p].sessionId].projectId]
  /\ Goto(p, "notify")
  /\ UNCHANGED << project, container, arg, probe1, probe2, attempt, row, todo,
                  cur, result, err, calls >>
  /\ UNCHANGED offService

\* lines 538-540: notifySessionChange when the updated row has a project,
\* then the return of the derived name.
StartNotify(p) ==
  /\ pc[p] = "notify"
  /\ IF proj[p] # Null THEN Logged(p, <<"notify">>) ELSE UNCHANGED log
  /\ result' = [result EXCEPT ![p] = [containerName |-> Name(p)]]
  /\ Goto(p, "done")
  /\ UNCHANGED << store, container, arg, locals, wrote, err, calls >>
  /\ UNCHANGED offService

Start(p) ==
  \/ CallStart(p)
  \/ StartShortCircuit(p)
  \/ StartLoad(p)
  \/ StartProbe(p)
  \/ StartPrepare(p)
  \/ StartRun(p)
  \/ StartConflictStart(p)
  \/ StartConflictRemove(p)
  \/ StartConflictRun(p)
  \/ StartRestart(p)
  \/ StartDriverStart(p)
  \/ StartReprobe(p)
  \/ StartUpdate(p)
  \/ StartNotify(p)

\* -------------------------------------------------- sessionService.stop

ActiveStatuses == {"running", "pending", "starting"}

\* What follows a finished stop(cur): the caller of stop returns, or the
\* cascade (project router, lines 114-123 and 274-287) goes on.
AfterStop(p, res, failed) ==
  IF arg[p].op = "stop"
  THEN /\ pc' = [pc EXCEPT ![p] = IF failed THEN "failed" ELSE "done"]
       /\ err' = [err EXCEPT ![p] = IF failed THEN "DRIVER" ELSE @]
       /\ result' = [result EXCEPT ![p] = res]
       /\ UNCHANGED << todo, cur >>
  ELSE /\ UNCHANGED << err, result >>
       /\ IF todo[p].left = {}
          THEN /\ Goto(p, IF arg[p].op = "delete" THEN "d_update"
                          ELSE "t_update")
               /\ UNCHANGED << todo, cur >>
          ELSE \E s \in todo[p].left :
                 /\ cur' = [cur EXCEPT ![p] = s]
                 /\ todo' = [todo EXCEPT ![p].left = @ \ {s}]
                 /\ Goto(p, "st_remove")

StopResult(removed, s, error) ==
  [removed |-> removed, containerName |-> AgentContainer(s), error |-> error]

\* A handler is invoked with stop(sessionId).
CallStop(p) ==
  \E s \in StartSessions :
    /\ Begin(p, [op |-> "stop", userId |-> Null, sessionId |-> s,
                 reset |-> FALSE, shared |-> FALSE, workspaceSuffix |-> <<>>])
    /\ Goto(p, "st_remove")
    /\ cur' = [cur EXCEPT ![p] = s]
    /\ UNCHANGED << store, container >>
    /\ UNCHANGED offService

\* lines 544-553 and 563-577: safeRemove of the ingress helper (outside any
\* try), the ingress cleanup (errors swallowed) and remove(agentContainer).
StopRemove(p) ==
  /\ pc[p] = "st_remove"
  /\ \E ingressOk \in BOOLEAN, o \in RemoveOutcomes(AgentContainer(cur[p])) :
       IF ~ingressOk
       THEN /\ StopLogged(p, <<"safeRemoveIngress!">>)
            /\ AfterStop(p, NoResult, TRUE)
            /\ UNCHANGED container
       ELSE /\ StopLogged(p, <<"safeRemoveIngress", "cleanup",
                           IF o = "ok" THEN "remove" ELSE "remove!" \o o>>)
            /\ CASE o = "ok" ->
                      /\ container' = [container EXCEPT
                                         ![AgentContainer(cur[p])] = "missing"]
                      /\ Goto(p, "st_probe")
                      /\ UNCHANGED << err, result, todo, cur >>
                 [] o = "nosuch" ->
                      /\ AfterStop(p, StopResult(FALSE, cur[p], "none"), FALSE)
                      /\ UNCHANGED container
                 [] o = "other" ->
                      /\ AfterStop(p, StopResult(FALSE, cur[p], "message"),
                                   FALSE)
                      /\ UNCHANGED container
  /\ UNCHANGED << store, arg, probe1, probe2, attempt, row, proj, wrote,
                  calls >>
  /\ UNCHANGED offService

StopProbeAlwaysRemoved(p) ==
  /\ pc[p] = "st_probe"
  /\ AfterStop(p, StopResult(TRUE, cur[p], "none"), FALSE)
  /\ UNCHANGED << store, container, arg, probe1, probe2, attempt, row, proj,
                  log, wrote, calls >>
  /\ UNCHANGED offService

\* lines 554-562: the probe after a remove that returned.
StopProbe(p) ==
  /\ pc[p] = "st_probe"
  /\ IF IsRunning(AgentContainer(cur[p])) # "null"
     THEN AfterStop(p, StopResult(FALSE, cur[p], "still exists"), FALSE)
     ELSE AfterStop(p, StopResult(TRUE, cur[p], "none"), FALSE)
  /\ UNCHANGED << store, container, arg, probe1, probe2, attempt, row, proj,
                  log, wrote, calls >>
  /\ UNCHANGED offService

\* ------------------------------------------------ project router: delete

\* ensureMyProject, lines 18-33.
MyProject(u) == project.exists /\ project.userId = u

\* The first stop of a cascade over the sessions in ss, or the update when
\* there is none.
BeginCascade(p, ss, after) ==
  IF ss = {}
  THEN /\ Goto(p, after)
       /\ UNCHANGED << todo, cur >>
  ELSE \E s \in ss :
         /\ cur' = [cur EXCEPT ![p] = s]
         /\ todo' = [todo EXCEPT ![p] = [found |-> ss, left |-> ss \ {s}]]
         /\ Goto(p, "st_remove")

CallDelete(p) ==
  \E u \in Users :
    /\ Begin(p, [op |-> "delete", userId |-> u, sessionId |-> NoSession,
                 reset |-> FALSE, shared |-> FALSE, workspaceSuffix |-> <<>>])
    /\ Goto(p, "d_ensure")
    /\ UNCHANGED << store, container, cur >>
    /\ UNCHANGED offService

\* line 107: ensureMyProject.
DeleteEnsure(p) ==
  /\ pc[p] = "d_ensure"
  /\ IF MyProject(arg[p].userId)
     THEN Goto(p, "d_find") /\ UNCHANGED err
     ELSE Throw(p, "NOT_FOUND")
  /\ UNCHANGED << store, container, arg, locals, log, wrote, result, calls >>
  /\ UNCHANGED offService

\* lines 110-119: findMany({projectId}) and the stop of each session found.
DeleteFind(p) ==
  /\ pc[p] = "d_find"
  /\ BeginCascade(p, {s \in Sessions : sessions[s].projectId = Pid},
                  "d_update")
  /\ UNCHANGED << store, container, arg, probe1, probe2, attempt, row, proj,
                  log, wrote, result, err, calls >>
  /\ UNCHANGED offService

\* lines 120-123: updateMany({projectId}, {status: stopped, projectId: null}).
DeleteUpdate(p) ==
  /\ pc[p] = "d_update"
  /\ sessions' = [s \in Sessions |->
        IF sessions[s].projectId = Pid
        THEN [sessions[s] EXCEPT !.status = "stopped", !.projectId = Null]
        ELSE sessions[s]]
  /\ Logged(p, <<"updateMany">>)
  /\ Goto(p, "d_delete")
  /\ UNCHANGED << project, container, arg, locals, wrote, result, err, calls >>
  /\ UNCHANGED offService

\* lines 125-126: project.delete; it throws when the row is gone.
DeleteProject(p) ==
  /\ pc[p] = "d_delete"
  /\ IF project.exists
     THEN /\ project' = [project EXCEPT !.exists = FALSE]
          /\ result' = [result EXCEPT ![p] = [deleted |-> TRUE]]
          /\ Goto(p, "done")
          /\ UNCHANGED err
     ELSE /\ Throw(p, "NOT_FOUND")
          /\ UNCHANGED << project, result >>
  /\ UNCHANGED << sessions, container, arg, locals, log, wrote, calls >>
  /\ UNCHANGED offService

\* ------------------------------------------- project router: toggleShare

\* the selection without the filter on the owner
NonOwnerActiveAnyUser ==
  {s \in Sessions : /\ sessions[s].projectId = Pid
                    /\ sessions[s].status \in ActiveStatuses}

\* lines 266-273, 281-285: the non-owner sessions of the project that are
\* running, pending or starting.
NonOwnerActive ==
  {s \in Sessions : /\ sessions[s].projectId = Pid
                    /\ sessions[s].userId # project.userId
                    /\ sessions[s].status \in ActiveStatuses}

CallToggleShare(p) ==
  \E u \in Users, sh \in BOOLEAN :
    /\ Begin(p, [op |-> "toggle", userId |-> u, sessionId |-> NoSession,
                 reset |-> FALSE, shared |-> sh, workspaceSuffix |-> <<>>])
    /\ Goto(p, "t_ensure")
    /\ UNCHANGED << store, container, cur >>
    /\ UNCHANGED offService

\* lines 258-265: ensureMyProject, then the branch on input.shared.
ToggleEnsure(p) ==
  /\ pc[p] = "t_ensure"
  /\ IF MyProject(arg[p].userId)
     THEN /\ Goto(p, IF arg[p].shared THEN "t_project" ELSE "t_find")
          /\ UNCHANGED err
     ELSE Throw(p, "NOT_FOUND")
  /\ UNCHANGED << store, container, arg, locals, log, wrote, result, calls >>
  /\ UNCHANGED offService

\* lines 266-279: findMany of the non-owner active sessions, stop of each.
ToggleFind(p) ==
  /\ pc[p] = "t_find"
  /\ BeginCascade(p, NonOwnerActive, "t_update")
  /\ UNCHANGED << store, container, arg, probe1, probe2, attempt, row, proj,
                  log, wrote, result, err, calls >>
  /\ UNCHANGED offService

\* lines 280-287: updateMany of the same selection.
ToggleUpdate(p) ==
  /\ pc[p] = "t_update"
  /\ sessions' = [s \in Sessions |->
        IF s \in NonOwnerActive
        THEN [sessions[s] EXCEPT !.status = "stopped", !.projectId = Null]
        ELSE sessions[s]]
  /\ Logged(p, <<"updateMany">>)
  /\ Goto(p, "t_project")
  /\ UNCHANGED << project, container, arg, locals, wrote, result, err, calls >>
  /\ UNCHANGED offService

\* lines 290-293: project.update({shared}); it throws when the row is gone.
ToggleProject(p) ==
  /\ pc[p] = "t_project"
  /\ IF project.exists
     THEN /\ project' = [project EXCEPT !.shared = arg[p].shared]
          /\ Goto(p, "t_notify")
          /\ UNCHANGED err
     ELSE /\ Throw(p, "NOT_FOUND")
          /\ UNCHANGED project
  /\ UNCHANGED << sessions, container, arg, locals, log, wrote, result,
                  calls >>
  /\ UNCHANGED offService

\* lines 294-295: notifySessionChange(input.id) and return.
ToggleNotify(p) ==
  /\ pc[p] = "t_notify"
  /\ Logged(p, <<"notify">>)
  /\ result' = [result EXCEPT ![p] = [shared |-> arg[p].shared]]
  /\ Goto(p, "done")
  /\ UNCHANGED << store, container, arg, locals, wrote, err, calls >>
  /\ UNCHANGED offService

Stop(p) ==
  \/ CallStop(p)
  \/ StopRemove(p)
  \/ StopProbe(p)

Delete(p) ==
  \/ CallDelete(p)
  \/ DeleteEnsure(p)
  \/ DeleteFind(p)
  \/ DeleteUpdate(p)
  \/ DeleteProject(p)

ToggleShare(p) ==
  \/ CallToggleShare(p)
  \/ ToggleEnsure(p)
  \/ ToggleFind(p)
  \/ ToggleUpdate(p)
  \/ ToggleProject(p)
  \/ ToggleNotify(p)

\* The container's process exits on its own (engine event).  Only the
\* containers that start probes are followed: remove treats a stopped and a
\* running container alike.
ContainerExit ==
  /\ \E n \in {AgentContainer(s) : s \in StartSessions} :
       /\ container[n] = "running"
       /\ container' = [container EXCEPT ![n] = "stopped"]
  /\ UNCHANGED << store, pc, arg, locals, log, wrote, result, err, calls >>
  /\ UNCHANGED offService

\* The session service and the project router; no /terminal connection.
Next ==
  \/ \E p \in Procs : Start(p)
  \/ \E p \in Procs : Stop(p)
  \/ \E p \in Procs : Delete(p)
  \/ \E p \in Procs : ToggleShare(p)
  \/ ContainerExit

Spec == Init /\ [][Next]_vars

\* ------------------------------------ WebSocket proxy: /terminal/:sessionId

\* The ids a connection is made for, and what the cookie resolves to
\* (getUserIdFromCookies / getAdminUserId, lines 57-64 and 90-96).
ConnSessions == Sessions \cup {NoSuchSession}
ConnUsers == Users \cup {Null}

ResolveTerminalAccessAnyStatus(sessionId, userId) ==
  IF /\ sessionId \in DOMAIN sessions
     /\ \/ sessions[sessionId].userId = userId
        \/ /\ sessions[sessionId].projectId = Pid
           /\ project.exists /\ project.shared
  THEN sessions[sessionId].containerName
  ELSE Null

\* resolveTerminalAccess (lines 71-84): the containerName of the session if it
\* is running and the user owns it or it belongs to a shared project.
ResolveTerminalAccess(sessionId, userId) ==
  IF /\ sessionId \in DOMAIN sessions
     /\ sessions[sessionId].status = "running"
     /\ \/ sessions[sessionId].userId = userId
        \/ /\ sessions[sessionId].projectId = Pid
           /\ project.exists /\ project.shared
  THEN sessions[sessionId].containerName
  ELSE Null

FlushLifo(buf, readyState) ==
  IF readyState = "open"
  THEN [i \in 1..Len(buf) |-> buf[Len(buf) + 1 - i]]
  ELSE <<>>

\* lines 312-316: the frames the loop over clientMessageBuffer sends upstream.
Flush(buf, readyState) == IF readyState = "open" THEN buf ELSE <<>>

\* socket.close(code, reason) by the proxy; no effect on a closed socket.
CloseClient(code, reason) ==
  client' = IF client.state = "open"
            THEN [state |-> "closed", code |-> code, reason |-> reason]
            ELSE client

\* The store a connection meets: as in Init, or after the owner's
\* toggleShare(shared=false), which stopped the session of the non-owner.
ProxyInit ==
  /\ \E started \in {{"s2"}, {"s1", "s2"}}, shared \in BOOLEAN :
       /\ sessions = [s \in Sessions |->
             IF s \notin started THEN NewSession(s)
             ELSE IF ~shared /\ SessionOwner(s) # Owner THEN UnsharedSession(s)
             ELSE StartedSession(s)]
       /\ container = [n \in Names |->
             IF \E s \in started :
                  n = AgentContainer(s) /\ (shared \/ SessionOwner(s) = Owner)
             THEN "running" ELSE "missing"]
       /\ project = [exists |-> TRUE, shared |-> shared, userId |-> Owner]
  /\ ServiceIdle
  /\ BridgeIdle
  /\ BroadcastIdle
  /\ ForwarderIdle
  /\ GitIdle
  /\ PaneIdle
  /\ StatusIdle
  /\ HooksIdle

\* lines 240-251: the socket is accepted, the handler is entered and awaits
\* the resolution of the user id.
ProxyConnect ==
  /\ bpc = "idle"
  /\ \E u \in ConnUsers, s \in ConnSessions :
       conn' = [userId |-> u, sessionId |-> s]
  /\ client' = [state |-> "open", code |-> 0, reason |-> ""]
  /\ bpc' = "auth"
  /\ UNCHANGED << upstream, tries, sent, buffer, delivered, lost, wire >>
  /\ UNCHANGED offBridge

\* lines 255-262: no user id closes with 1008 "Unauthorized"; otherwise the
\* handler awaits resolveTerminalAccess.
ProxyAuth ==
  /\ bpc = "auth"
  /\ IF conn.userId = Null
     THEN CloseClient(1008, "Unauthorized") /\ bpc' = "closed"
     ELSE bpc' = "access" /\ UNCHANGED client
  /\ UNCHANGED << conn, upstream, tries, sent, buffer, delivered, lost, wire >>
  /\ UNCHANGED offBridge

\* lines 262-297: no containerName closes with 1008; otherwise the buffering
\* listener is installed and connectToContainerWs starts its first attempt.
ProxyAccess ==
  /\ bpc = "access"
  /\ IF ResolveTerminalAccess(conn.sessionId, conn.userId) = Null
     THEN /\ CloseClient(1008,
                "Session not found, not running, or access denied")
          /\ bpc' = "closed"
          /\ UNCHANGED tries
     ELSE /\ bpc' = "direct"
          /\ tries' = 1
          /\ UNCHANGED client
  /\ UNCHANGED << conn, upstream, sent, buffer, delivered, lost, wire >>
  /\ UNCHANGED offBridge

\* lines 298, 308-322: the upstream is open; the buffering listener is
\* removed, the buffer is flushed and the forwarding listener is installed,
\* all in the same turn of the event loop.
Established ==
  /\ upstream' = "open"
  /\ delivered' = delivered \o Flush(buffer, "open")
  /\ bpc' = "bridged"
  /\ UNCHANGED << client, tries >>

\* lines 299-306: connectToContainerWs threw; close with 1011 and return.
ConnectFailed ==
  /\ CloseClient(1011, "Could not connect to terminal")
  /\ bpc' = "closed"
  /\ UNCHANGED << upstream, delivered, tries >>

\* lines 167-190: the direct connection of an attempt opens, or fails by
\* error or by the 1500 ms timer.
ProxyDirect ==
  /\ bpc = "direct"
  /\ wire' = Append(wire, "direct")
  /\ \E o \in {"open", "fail"} :
       IF o = "open" THEN Established
       ELSE /\ bpc' = "tunnel"
            /\ UNCHANGED << client, upstream, delivered, tries >>
  /\ UNCHANGED << conn, sent, buffer, lost >>
  /\ UNCHANGED offBridge

ProxyTunnelExtraAttempt ==
  /\ bpc = "tunnel"
  /\ \E o \in {"open", "fail", "reject"} :
       CASE o = "open" -> Established /\ wire' = Append(wire, "tunnel")
         [] o = "reject" -> ConnectFailed /\ UNCHANGED wire
         [] o = "fail" ->
              IF tries <= maxAttempts
              THEN /\ bpc' = "sleep"
                   /\ wire' = wire \o << "tunnel", "sleep" >>
                   /\ UNCHANGED << client, upstream, delivered, tries >>
              ELSE ConnectFailed /\ wire' = Append(wire, "tunnel")
  /\ UNCHANGED << conn, sent, buffer, lost >>
  /\ UNCHANGED offBridge

\* lines 192-212: the docker exec bridge and the connection through it.  The
\* bridge's listener may fail before any connection is tried (the attempt
\* and connectToContainerWs throw); the connection may open, or fail: the
\* 500 ms sleep starts if attempts are left, else connectToContainerWs throws.
ProxyTunnel ==
  /\ bpc = "tunnel"
  /\ \E o \in {"open", "fail", "reject"} :
       CASE o = "open" -> Established /\ wire' = Append(wire, "tunnel")
         [] o = "reject" -> ConnectFailed /\ UNCHANGED wire
         [] o = "fail" ->
              IF tries < maxAttempts
              THEN /\ bpc' = "sleep"
                   /\ wire' = wire \o << "tunnel", "sleep" >>
                   /\ UNCHANGED << client, upstream, delivered, tries >>
              ELSE ConnectFailed /\ wire' = Append(wire, "tunnel")
  /\ UNCHANGED << conn, sent, buffer, lost >>
  /\ UNCHANGED offBridge

\* lines 207-212: the 500 ms sleep is over, the next attempt starts.
ProxySleep ==
  /\ bpc = "sleep"
  /\ tries' = tries + 1
  /\ bpc' = "direct"
  /\ UNCHANGED << conn, client, upstream, sent, buffer, delivered, lost, wire >>
  /\ UNCHANGED offBridge

\* The client sends its next frame.  Before line 288 the socket has no
\* message listener; from line 288 to line 311 the frame is pushed onto
\* clientMessageBuffer (lines 285-287); from line 318 it is sent upstream if
\* the upstream is OPEN (lines 318-322).
ClientSend ==
  /\ client.state = "open"
  /\ sent < MaxFrames
  /\ sent' = sent + 1
  /\ CASE bpc \in {"auth", "access"} ->
            /\ lost' = lost \cup {sent + 1}
            /\ UNCHANGED << buffer, delivered >>
       [] bpc \in {"direct", "tunnel", "sleep"} ->
            /\ buffer' = Append(buffer, sent + 1)
            /\ UNCHANGED << delivered, lost >>
       [] bpc = "bridged" /\ upstream = "open" ->
            /\ delivered' = Append(delivered, sent + 1)
            /\ UNCHANGED << buffer, lost >>
       [] bpc = "bridged" /\ upstream # "open" ->
            /\ lost' = lost \cup {sent + 1}
            /\ UNCHANGED << buffer, delivered >>
  /\ UNCHANGED << bpc, conn, client, upstream, tries, wire >>
  /\ UNCHANGED offBridge

\* The client closes its socket.  The close listener exists from line 344
\* on and terminates an upstream that is not closed (lines 344-352).
ClientClose ==
  /\ client.state = "open"
  /\ client' = [state |-> "closed", code |-> 1000, reason |-> "client"]
  /\ upstream' = IF bpc = "bridged" /\ upstream = "open" THEN "closed"
                 ELSE upstream
  /\ UNCHANGED << bpc, conn, tries, sent, buffer, delivered, lost, wire >>
  /\ UNCHANGED offBridge

\* The upstream closes or errors (lines 330-342): the client socket, if
\* open, is closed with the upstream's code, or with 1011 on an error.
UpstreamClose ==
  /\ bpc = "bridged" /\ upstream = "open"
  /\ upstream' = "closed"
  /\ \E kind \in {"close", "error"} :
       IF kind = "close" THEN CloseClient(1000, "upstream")
       ELSE CloseClient(1011, "Upstream error")
  /\ UNCHANGED << bpc, conn, tries, sent, buffer, delivered, lost, wire >>
  /\ UNCHANGED offBridge

ProxyNext ==
  \/ ProxyConnect
  \/ ProxyAuth
  \/ ProxyAccess
  \/ ProxyDirect
  \/ ProxyTunnel
  \/ ProxySleep
  \/ ClientSend
  \/ ClientClose
  \/ UpstreamClose

ProxySpec == ProxyInit /\ [][ProxyNext]_vars

\* ProxySpec with the progress the code guarantees: the handler's own awaits
\* (authentication, the store) return, the direct connection resolves by its
\* 1500 ms timer at the latest (lines 175-178) and the 500 ms sleep ends
\* (line 211).  The connection through the docker exec bridge has no timer
\* (lines 195-203): it resolves only when its socket emits open or error.
ProxyFairSpec ==
  /\ ProxySpec
  /\ WF_vars(ProxyConnect)
  /\ WF_vars(ProxyAuth)
  /\ WF_vars(ProxyAccess)
  /\ WF_vars(ProxyDirect)
  /\ WF_vars(ProxySleep)

\* ------------------------------------------------------------ broadcasters

\* EventEmitter.on: the listener is added at the end of the event's list.
On(ls, handler) == Append(ls, handler)

\* EventEmitter.off: the most recently added instance of the listener is
\* removed; nothing changes if it is not in the list.
Off(ls, handler) ==
  IF \E i \in DOMAIN ls : ls[i] = handler
  THEN LET k == CHOOSE i \in DOMAIN ls :
                   /\ ls[i] = handler
                   /\ \A j \in DOMAIN ls : ls[j] = handler => j <= i
       IN  SubSeq(ls, 1, k - 1) \o SubSeq(ls, k + 1, Len(ls))
  ELSE ls

\* EventEmitter.emit: the listeners of the event are called synchronously in
\* the order they were added; emit has no try/catch, so the exception of the
\* k-th listener leaves emit and the listeners after it are not called
\* (k = 0: no listener throws).
Emit(ls, k) == SubSeq(ls, 1, IF k = 0 THEN Len(ls) ELSE k)

\* listeners of all events of both emitters
Listeners ==
  LET RECURSIVE Sum(_)
      Sum(S) == IF S = {} THEN 0
                ELSE LET tp == CHOOSE x \in S : TRUE
                     IN  Len(emitter[tp]) + Sum(S \ {tp})
  IN  Sum(Topics)

\* session-broadcaster.ts lines 31-35: emitter.on(`sessions:${projectId}`,
\* handler).
OnSessionChange ==
  /\ Listeners < MaxListeners
  /\ \E projectId \in ProjectIds, handler \in Handlers :
       emitter' = [emitter EXCEPT
                     ![Topic("sessions", projectId)] = On(@, handler)]
  /\ UNCHANGED << note, notified >>
  /\ UNCHANGED offBcast

\* presence-broadcaster.ts lines 31-35: emitter.on(`presence:${projectId}`,
\* handler).
OnPresenceChange ==
  /\ Listeners < MaxListeners
  /\ \E projectId \in ProjectIds, handler \in Handlers :
       emitter' = [emitter EXCEPT
                     ![Topic("presence", projectId)] = On(@, handler)]
  /\ UNCHANGED << note, notified >>
  /\ UNCHANGED offBcast

\* line 36 of both broadcasters: the handle returned by a subscription is
\* called, emitter.off(topic, handler).
Unsubscribe ==
  /\ \E tp \in Topics, handler \in Handlers :
       /\ \E i \in DOMAIN emitter[tp] : emitter[tp][i] = handler
       /\ emitter' = [emitter EXCEPT ![tp] = Off(@, handler)]
  /\ UNCHANGED << note, notified >>
  /\ UNCHANGED offBcast

\* session-broadcaster.ts lines 27-29: emitter.emit(`sessions:${projectId}`);
\* any of the listeners may throw.
NotifySessionChange ==
  /\ notified < MaxNotifies
  /\ notified' = notified + 1
  /\ \E projectId \in ProjectIds :
       \E k \in 0..Len(emitter[Topic("sessions", projectId)]) :
          note' = [emitter |-> "sessions", projectId |-> projectId,
                   subs |-> emitter[Topic("sessions", projectId)],
                   ran |-> Emit(emitter[Topic("sessions", projectId)], k),
                   threw |-> k # 0]
  /\ UNCHANGED emitter
  /\ UNCHANGED offBcast

\* presence-broadcaster.ts lines 27-29: emitter.emit(`presence:${projectId}`);
\* any of the listeners may throw.
NotifyPresenceChange ==
  /\ notified < MaxNotifies
  /\ notified' = notified + 1
  /\ \E projectId \in ProjectIds :
       \E k \in 0..Len(emitter[Topic("presence", projectId)]) :
          note' = [emitter |-> "presence", projectId |-> projectId,
                   subs |-> emitter[Topic("presence", projectId)],
                   ran |-> Emit(emitter[Topic("presence", projectId)], k),
                   threw |-> k # 0]
  /\ UNCHANGED emitter
  /\ UNCHANGED offBcast

\* Both emitters are new; the store is that of two started sessions.
BroadcastInit ==
  /\ sessions = [s \in Sessions |-> StartedSession(s)]
  /\ container = [n \in Names |->
        IF \E s \in Sessions : n = AgentContainer(s)
        THEN "running" ELSE "missing"]
  /\ project = [exists |-> TRUE, shared |-> TRUE, userId |-> Owner]
  /\ ServiceIdle
  /\ BridgeIdle
  /\ BroadcastIdle
  /\ ForwarderIdle
  /\ GitIdle
  /\ PaneIdle
  /\ StatusIdle
  /\ HooksIdle

BroadcastNext ==
  \/ OnSessionChange
  \/ OnPresenceChange
  \/ Unsubscribe
  \/ NotifySessionChange
  \/ NotifyPresenceChange

BroadcastSpec == BroadcastInit /\ [][BroadcastNext]_vars

\* --------------------------------------------------- front-door forwarder

NEXT_PORT == 3001
WS_PORT == 7682
WS_PREFIXES == << "/terminal/", "/presence/", "/sessions/" >>

\* `GET ${p}`
Get(p) == << "GET ", p >>

\* The text of a first chunk, as a sequence of pieces: request-line starts,
\* header lines and other text, with the number of bytes of each.
Pieces ==
  { Get(WS_PREFIXES[i]) : i \in DOMAIN WS_PREFIXES } \cup
  { Get("/api/"), << "POST ", "/api/" >>, << "Upgrade: websocket" >>,
    << "upgrade:websocket" >>, << "other", 500 >> }

Bytes(piece) ==
  CASE piece = << "Upgrade: websocket" >> -> 18
    [] piece = << "upgrade:websocket" >> -> 17
    [] piece[1] = "other" -> piece[2]
    [] piece = Get("/api/") -> 9
    [] piece = << "POST ", "/api/" >> -> 10
    [] OTHER -> 14

Chunks == UNION { [1..n -> Pieces] : n \in 1..MaxPieces }

RECURSIVE ChunkToString(_, _, _)
\* chunk.toString('ascii', start, end): the pieces that lie within the
\* first `end` bytes; a piece the limit cuts is left as other text.
ChunkToString(c, start, end) ==
  IF c = <<>> \/ start >= end THEN <<>>
  ELSE IF start + Bytes(Head(c)) <= end
       THEN << Head(c) >> \o ChunkToString(Tail(c), start + Bytes(Head(c)), end)
       ELSE << << "other", end - start >> >>

\* /upgrade:\s*websocket/i.test(head)
IsUpgrade(head) ==
  \E i \in DOMAIN head :
     head[i] \in { << "Upgrade: websocket" >>, << "upgrade:websocket" >> }

\* WS_PREFIXES.some((p) => head.includes(`GET ${p}`))
IsWsPath(head) ==
  \E i \in DOMAIN WS_PREFIXES :
     \E j \in DOMAIN head : head[j] = Get(WS_PREFIXES[i])

\* lines 607-610: the port a connection with first chunk c is routed to.
Route(c) ==
  LET head == ChunkToString(c, 0, 512)
  IN  IF IsUpgrade(head) /\ IsWsPath(head) THEN WS_PORT ELSE NEXT_PORT

\* lines 603-606, 614: a client connected; the handler waits for its first
\* chunk.
Accept ==
  /\ fpc = "idle"
  /\ fpc' = "sniff"
  /\ UNCHANGED << chunk, port, later, held, received >>
  /\ UNCHANGED offFwd

\* lines 606-611, 587-600: the first chunk arrives, the port is chosen and
\* tunnel() starts the connection to the target.
FirstData ==
  /\ fpc = "sniff"
  /\ \E c \in Chunks :
       /\ chunk' = c
       /\ port' = Route(c)
  /\ fpc' = "connecting"
  /\ UNCHANGED << later, held, received >>
  /\ UNCHANGED offFwd

TargetConnectPipeOnly ==
  /\ fpc = "connecting"
  /\ received' = held
  /\ held' = <<>>
  /\ fpc' = "piped"
  /\ UNCHANGED << chunk, port, later >>
  /\ UNCHANGED offFwd

\* lines 590-594: the target connected; the first chunk is written to it
\* and the pipes are installed, which passes on what the client socket
\* holds.
TargetConnect ==
  /\ fpc = "connecting"
  /\ received' = << 0 >> \o held
  /\ held' = <<>>
  /\ fpc' = "piped"
  /\ UNCHANGED << chunk, port, later >>
  /\ UNCHANGED offFwd

\* The client sends a later chunk.  Before the pipe is installed the client
\* socket, whose only 'data' listener was removed after the first chunk
\* (line 606), keeps the chunk or emits it to no listener; after, the pipe
\* writes it to the target.
LaterData ==
  /\ fpc \in {"connecting", "piped"}
  /\ later < MaxLater
  /\ later' = later + 1
  /\ IF fpc = "piped"
     THEN received' = Append(received, later + 1) /\ UNCHANGED held
     ELSE /\ \E keep \in BOOLEAN :
               held' = IF keep THEN Append(held, later + 1) ELSE held
          /\ UNCHANGED received
  /\ UNCHANGED << fpc, chunk, port >>
  /\ UNCHANGED offFwd

\* lines 596-600: an error or close of either socket destroys both.
Destroy ==
  /\ fpc \in {"connecting", "piped"}
  /\ fpc' = "destroyed"
  /\ held' = <<>>
  /\ UNCHANGED << chunk, port, later, received >>
  /\ UNCHANGED offFwd

\* The forwarder listens; the store is that of two started sessions.
ForwardInit ==
  /\ sessions = [s \in Sessions |-> StartedSession(s)]
  /\ container = [n \in Names |->
        IF \E s \in Sessions : n = AgentContainer(s)
        THEN "running" ELSE "missing"]
  /\ project = [exists |-> TRUE, shared |-> TRUE, userId |-> Owner]
  /\ ServiceIdle
  /\ BridgeIdle
  /\ BroadcastIdle
  /\ ForwarderIdle
  /\ GitIdle
  /\ PaneIdle
  /\ StatusIdle
  /\ HooksIdle

ForwardNext ==
  \/ Accept
  \/ FirstData
  \/ TargetConnect
  \/ LaterData
  \/ Destroy

ForwardSpec == ForwardInit /\ [][ForwardNext]_vars

\* ------------------------------------- hooks: presence and sessions lists

NEXT_PUBLIC_DISABLE_AUTH == FALSE      \* authentication is enabled

IsPresence == hook \in {"presence", "presenceRefs"}

\* where a run keeps closed, retryTimer, retryDelay and heartbeatInterval:
\* in locals of its own (part_001 lines 111-114, use-sessions lines 189-191)
\* or in refs shared by all runs (use-presence-websocket.ts lines 50-56)
Cell(g) == IF hook = "presenceRefs" THEN 0 ELSE g

Min(a, b) == IF a <= b THEN a ELSE b

\* ws.close(): a socket that is connecting or open starts closing
Close(readyState) ==
  IF readyState \in {"connecting", "open"} THEN "closing" ELSE readyState

\* frames a socket delivers: a JSON array of entries, JSON that is not an
\* array, text that is not JSON
ListValues == { <<>>, << "e1" >> }
NewSessions == { "e2" }
Frames == { [kind |-> "list", value |-> v] : v \in ListValues } \cup
          { [kind |-> "json", value |-> <<>>],
            [kind |-> "malformed", value |-> <<>>] }

\* part_001 lines 132-138: setPresences(JSON.parse(event.data)), ignored if
\* JSON.parse throws.
PresenceOnMessage(prev, f) ==
  IF f.kind = "malformed" THEN prev
  ELSE [array |-> f.kind = "list", items |-> f.value]

\* use-sessions lines 202-212: setSessions(raw.map(revive)), ignored if
\* JSON.parse or raw.map throws.
SessionsOnMessage(prev, f) ==
  IF f.kind = "list" THEN [array |-> TRUE, items |-> f.value] ELSE prev

\* the locals of a run that nothing can reach any more: its cleanup has
\* run and its last socket has delivered its close event
DeadCell == [closed |-> TRUE, retryTimer |-> 0, retryDelay |-> 1000,
             heartbeatInterval |-> 0]

\* the state of the hook after the cleanup of run g (part_001 lines
\* 169-185, use-sessions lines 231-237)
CleanedCells(g) ==
  IF hook # "presenceRefs" /\ ws[g] \in {"none", "closed"}
  THEN [cells EXCEPT ![g] = DeadCell]
  ELSE [cells EXCEPT ![Cell(g)].closed = TRUE,
                     ![Cell(g)].heartbeatInterval =
                         IF IsPresence THEN 0 ELSE @]
CleanedFails(g) ==
  IF hook # "presenceRefs" THEN [fails EXCEPT ![g] = 0] ELSE fails
CleanedDelay(g) ==
  IF hook # "presenceRefs" THEN [lastDelay EXCEPT ![g] = 0] ELSE lastDelay
CleanedIntervals(g) ==
  IF IsPresence THEN intervals \ {cells[Cell(g)].heartbeatInterval}
  ELSE intervals
CleanedPending(g) == pending \ {cells[Cell(g)].retryTimer}
CleanedWs == IF socketRef # 0 THEN [ws EXCEPT ![socketRef] = Close(@)] ELSE ws

\* A render with new arguments (also the first): React runs the cleanup of
\* the effects whose dependencies changed and then their bodies, in the
\* order of declaration: sessionIdRef (part_001 lines 54-56), the immediate
\* heartbeat (lines 60-67), the connection effect (lines 101-186; use-sessions
\* lines 180-238).
Render ==
  /\ mounted \in {"no", "yes"}
  /\ \E np \in Props :
       LET first == mounted = "no"
           deps == \/ first
                   \/ np.enabled # props.enabled
                   \/ np.projectId # props.projectId
           sid == IsPresence /\ (first \/ np.sessionId # props.sessionId)
           clean == deps /\ active
           connects == deps /\ np.enabled /\ np.projectId # Null
           g == gen + 1
           cells1 == IF clean THEN CleanedCells(gen) ELSE cells
           ws1 == IF clean THEN CleanedWs ELSE ws
           ref1 == IF clean THEN 0 ELSE socketRef
           sends == /\ sid /\ np.sessionId # Null
                    /\ ~NEXT_PUBLIC_DISABLE_AUTH
                    /\ ref1 # 0 /\ ws1[ref1] = "open"
       IN  /\ first \/ np # props
           /\ hook # "presence" => np.sessionId = Null
           /\ connects => gen < MaxEffects
           /\ (connects /\ gen = 0) => np.projectId = "pA"
           /\ props' = np
           /\ mounted' = "yes"
           /\ sessionIdRef' = IF sid THEN np.sessionId ELSE sessionIdRef
           /\ intervals' = IF clean THEN CleanedIntervals(gen) ELSE intervals
           /\ pending' = IF clean THEN CleanedPending(gen) ELSE pending
           /\ cleaned' = IF clean THEN cleaned \cup {gen} ELSE cleaned
           /\ list' = IF deps /\ ~connects THEN EmptyList ELSE list
           /\ active' = IF deps THEN connects ELSE active
           /\ IF connects
              THEN /\ gen' = g
                   /\ eff' = [eff EXCEPT ![g] = np.projectId]
                   /\ cells' = [cells1 EXCEPT
                         ![Cell(g)] = IF hook = "presenceRefs"
                                      THEN [@ EXCEPT !.closed = FALSE,
                                                     !.retryDelay = 1000]
                                      ELSE FreshCell]
                   /\ ws' = [ws1 EXCEPT ![g] = "connecting"]
                   /\ socketRef' = g
              ELSE /\ cells' = cells1
                   /\ ws' = ws1
                   /\ socketRef' = ref1
                   /\ UNCHANGED << gen, eff >>
           /\ beat' = IF sends THEN np.sessionId ELSE Null
           /\ fails' = IF clean THEN CleanedFails(gen) ELSE fails
           /\ lastDelay' = IF clean THEN CleanedDelay(gen) ELSE lastDelay
  /\ UNCHANGED hook
  /\ UNCHANGED offHooks

\* The component unmounts: the cleanup of the connection effect runs.
Unmount ==
  /\ mounted = "yes"
  /\ mounted' = "gone"
  /\ IF active
     THEN /\ cells' = CleanedCells(gen)
          /\ intervals' = CleanedIntervals(gen)
          /\ pending' = CleanedPending(gen)
          /\ ws' = CleanedWs
          /\ socketRef' = 0
          /\ cleaned' = cleaned \cup {gen}
          /\ fails' = CleanedFails(gen)
          /\ lastDelay' = CleanedDelay(gen)
     ELSE UNCHANGED << cells, intervals, pending, ws, socketRef, cleaned,
                       fails, lastDelay >>
  /\ active' = FALSE
  /\ beat' = Null
  /\ UNCHANGED << hook, props, gen, eff, sessionIdRef, list >>
  /\ UNCHANGED offHooks

\* ws.onopen (part_001 lines 140-150, use-sessions lines 214-216): the delay
\* is reset; with a sessionId selected the presence hook sends a heartbeat
\* and arms the heartbeat interval.
SocketOpen ==
  /\ \E g \in Gens :
       LET hb == /\ IsPresence /\ sessionIdRef # Null
                 /\ ~NEXT_PUBLIC_DISABLE_AUTH
       IN  /\ ws[g] = "connecting"
           /\ ws' = [ws EXCEPT ![g] = "open"]
           /\ cells' = [cells EXCEPT
                 ![Cell(g)].retryDelay = 1000,
                 ![Cell(g)].heartbeatInterval = IF hb THEN g ELSE @]
           /\ intervals' = IF hb THEN intervals \cup {g} ELSE intervals
           /\ fails' = [fails EXCEPT ![g] = 0]
           /\ beat' = IF hb THEN sessionIdRef ELSE Null
  /\ UNCHANGED << hook, mounted, props, gen, active, eff, pending, socketRef,
                  sessionIdRef, list, lastDelay, cleaned >>
  /\ UNCHANGED offHooks

\* reconnects scheduled by all runs since their last open
Retries ==
  LET RECURSIVE Sum(_)
      Sum(S) == IF S = {} THEN 0
                ELSE LET g == CHOOSE x \in S : TRUE
                     IN  fails[g] + Sum(S \ {g})
  IN  Sum(Gens)

\* ws.onerror (part_001 line 164, use-sessions line 226): ws.close().
SocketError ==
  /\ \E g \in Gens :
       /\ ws[g] \in {"connecting", "open"}
       /\ ws' = [ws EXCEPT ![g] = Close(@)]
       /\ beat' = Null
  /\ UNCHANGED << hook, mounted, props, gen, active, eff, cells, pending,
                  intervals, socketRef, sessionIdRef, list, fails, lastDelay,
                  cleaned >>
  /\ UNCHANGED offHooks

\* ws.onclose (part_001 lines 152-162, use-sessions lines 218-224): the
\* socket failed to connect, was closed by the server or finished closing;
\* unless closed is set the retry timer is armed with the current delay.
SocketClose ==
  /\ \E g \in Gens :
       LET c == Cell(g)
           retry == ~cells[c].closed
       IN  /\ ws[g] \in {"connecting", "open", "closing"}
           /\ retry => Retries < MaxRetries
           /\ ws' = [ws EXCEPT ![g] = "closed"]
           /\ intervals' = IF IsPresence
                            THEN intervals \ {cells[c].heartbeatInterval}
                            ELSE intervals
           /\ cells' = IF ~retry /\ hook # "presenceRefs"
                       THEN [cells EXCEPT ![c] = DeadCell]
                       ELSE [cells EXCEPT
                               ![c].heartbeatInterval =
                                   IF IsPresence THEN 0 ELSE @,
                               ![c].retryTimer = IF retry THEN g ELSE @]
           /\ pending' = IF retry THEN pending \cup {g} ELSE pending
           /\ lastDelay' = IF retry
                            THEN [lastDelay EXCEPT ![g] = cells[c].retryDelay]
                            ELSE lastDelay
           /\ fails' = IF retry THEN [fails EXCEPT ![g] = @ + 1] ELSE fails
           /\ beat' = Null
  /\ UNCHANGED << hook, mounted, props, gen, active, eff, socketRef,
                  sessionIdRef, list, cleaned >>
  /\ UNCHANGED offHooks

TimerFireNoCap ==
  /\ \E g \in pending :
       LET c == Cell(g)
       IN  /\ pending' = pending \ {g}
           /\ cells' = [cells EXCEPT ![c].retryDelay = @ * 2]
           /\ IF cells[c].closed
              THEN UNCHANGED << ws, socketRef >>
              ELSE /\ ws' = [ws EXCEPT ![g] = "connecting"]
                   /\ socketRef' = g
           /\ beat' = Null
  /\ UNCHANGED << hook, mounted, props, gen, active, eff, intervals,
                  sessionIdRef, list, fails, lastDelay, cleaned >>
  /\ UNCHANGED offHooks

\* The retry timer of run g fires (part_001 lines 158-161 and 123-130,
\* use-sessions lines 220-223 and 193-200): the delay is doubled up to
\* MAX_RETRY_DELAY_MS and connect() opens a socket to the project of the
\* run unless closed is set.
TimerFire ==
  /\ \E g \in pending :
       LET c == Cell(g)
       IN  /\ pending' = pending \ {g}
           /\ cells' = [cells EXCEPT
                 ![c].retryDelay = Min(@ * 2, MAX_RETRY_DELAY_MS)]
           /\ IF cells[c].closed
              THEN UNCHANGED << ws, socketRef >>
              ELSE /\ ws' = [ws EXCEPT ![g] = "connecting"]
                   /\ socketRef' = g
           /\ beat' = Null
  /\ UNCHANGED << hook, mounted, props, gen, active, eff, intervals,
                  sessionIdRef, list, fails, lastDelay, cleaned >>
  /\ UNCHANGED offHooks

\* The heartbeat interval of run g ticks (part_001 lines 116-121, 145-148):
\* a heartbeat with the current sessionIdRef is sent if one is selected and
\* the socket is open.
HeartbeatTick ==
  /\ \E g \in intervals :
       beat' = IF sessionIdRef # Null /\ ws[g] = "open"
               THEN sessionIdRef ELSE Null
  /\ UNCHANGED << hook, mounted, props, gen, active, eff, ws, cells, pending,
                  intervals, socketRef, sessionIdRef, list, fails, lastDelay,
                  cleaned >>
  /\ UNCHANGED offHooks

\* ws.onmessage (part_001 lines 132-138, use-sessions lines 202-212): an
\* open socket delivers a frame.
Message ==
  /\ \E g \in Gens, f \in Frames :
       /\ ws[g] = "open"
       /\ list' = IF IsPresence THEN PresenceOnMessage(list, f)
                  ELSE SessionsOnMessage(list, f)
       /\ beat' = Null
  /\ UNCHANGED << hook, mounted, props, gen, active, eff, ws, cells, pending,
                  intervals, socketRef, sessionIdRef, fails, lastDelay,
                  cleaned >>
  /\ UNCHANGED offHooks

\* addSession (use-sessions lines 241-246): the entry is appended unless
\* one with its id is in the list.
AddSession ==
  /\ hook = "sessions" /\ mounted = "yes"
  /\ \E e \in NewSessions :
       list' = IF \E i \in DOMAIN list.items : list.items[i] = e THEN list
               ELSE [list EXCEPT !.items = Append(@, e)]
  /\ beat' = Null
  /\ UNCHANGED << hook, mounted, props, gen, active, eff, ws, cells, pending,
                  intervals, socketRef, sessionIdRef, fails, lastDelay,
                  cleaned >>
  /\ UNCHANGED offHooks

\* A component that uses one of the hooks with per-effect locals is about
\* to mount; the store is that of two started sessions.
HookInit ==
  /\ sessions = [s \in Sessions |-> StartedSession(s)]
  /\ container = [n \in Names |->
        IF \E s \in Sessions : n = AgentContainer(s)
        THEN "running" ELSE "missing"]
  /\ project = [exists |-> TRUE, shared |-> TRUE, userId |-> Owner]
  /\ ServiceIdle
  /\ BridgeIdle
  /\ BroadcastIdle
  /\ ForwarderIdle
  /\ GitIdle
  /\ PaneIdle
  /\ StatusIdle
  /\ hook \in {"presence", "sessions"}
  /\ HooksUnmounted

HookNext ==
  \/ Render
  \/ Unmount
  \/ SocketOpen
  \/ SocketError
  \/ SocketClose
  \/ TimerFire
  \/ HeartbeatTick
  \/ Message
  \/ AddSession

HookSpec == HookInit /\ [][HookNext]_vars

\* A component that uses usePresenceWebSocket of use-presence-websocket.ts
\* is about to mount.
RefsHookInit ==
  /\ sessions = [s \in Sessions |-> StartedSession(s)]
  /\ container = [n \in Names |->
        IF \E s \in Sessions : n = AgentContainer(s)
        THEN "running" ELSE "missing"]
  /\ project = [exists |-> TRUE, shared |-> TRUE, userId |-> Owner]
  /\ ServiceIdle
  /\ BridgeIdle
  /\ BroadcastIdle
  /\ ForwarderIdle
  /\ GitIdle
  /\ PaneIdle
  /\ StatusIdle
  /\ hook = "presenceRefs"
  /\ HooksUnmounted

\* the connection life cycle of the hook: renders, socket events, timers
RefsHookNext ==
  \/ Render
  \/ Unmount
  \/ SocketOpen
  \/ SocketError
  \/ SocketClose
  \/ TimerFire

RefsHookSpec == RefsHookInit /\ [][RefsHookNext]_vars

\* ------------------------------------------- presence status (computeStatus)

\* readings of Date.now(): around every multiple of the active threshold,
\* one millisecond before it, on it and one millisecond after it
Instants ==
  { t \in { ACTIVE_THRESHOLD_MS * a + d : a \in 0..MaxWindows,
                                          d \in {-1, 0, 1} } : t >= 0 }

\* computeStatus with the active threshold included in the active range
computeStatusInclusive(lastInteractionMs) ==
  LET e == now - lastInteractionMs
  IN  IF e <= ACTIVE_THRESHOLD_MS THEN "active"
      ELSE IF e < VIEWING_THRESHOLD_MS THEN "viewing"
      ELSE "inactive"

\* computeStatus (part_001 lines 24-31)
computeStatus(lastInteractionMs) ==
  LET e == now - lastInteractionMs
  IN  IF e < ACTIVE_THRESHOLD_MS THEN "active"
      ELSE IF e < VIEWING_THRESHOLD_MS THEN "viewing"
      ELSE "inactive"

\* time passes
Tick ==
  /\ \E t \in Instants : t > now /\ now' = t
  /\ UNCHANGED << lastInteractionRef, status, elapsed >>
  /\ UNCHANGED offStat

\* onInteraction (part_001 lines 73-75): mousemove, keydown, click, scroll
OnInteraction ==
  /\ lastInteractionRef' = now
  /\ UNCHANGED << now, status, elapsed >>
  /\ UNCHANGED offStat

\* sendHeartbeat (part_001 lines 116-121) computes the status it sends
SendHeartbeat ==
  /\ status' = computeStatus(lastInteractionRef)
  /\ elapsed' = now - lastInteractionRef
  /\ UNCHANGED << now, lastInteractionRef >>
  /\ UNCHANGED offStat

StatusInit ==
  /\ StoreStarted
  /\ ServiceIdle
  /\ BridgeIdle
  /\ BroadcastIdle
  /\ ForwarderIdle
  /\ GitIdle
  /\ PaneIdle
  /\ HooksIdle
  /\ StatusIdle

StatusNext ==
  \/ Tick
  \/ OnInteraction
  \/ SendHeartbeat

StatusSpec == StatusInit /\ [][StatusNext]_vars

\* ------------------------------------------------- terminal pane (browser)

\* connectionIdRef.current !== connectionId
Stale(c) == connectionIdRef # c

\* the frames on the socket of call s after one more frame f was sent on it
Sent(fr, s, f) == [fr EXCEPT ![s] = Append(@, f)]

\* sendInput / sendResize (part_005 lines 772-816): the frame goes to
\* socketRef.current, and only if that socket is open
SendActive(fr, f) ==
  IF paneSocket # 0 /\ sock[paneSocket] = "open"
  THEN Sent(fr, paneSocket, f) ELSE fr

\* socket.send(handshake) (part_005 line 945) on the socket of call c; a
\* socket that is closing or closed discards the frame
SendHandshake(fr, c) ==
  IF sock[c] = "open" THEN Sent(fr, c, "h") ELSE fr

\* setupTerminal reaches part_005 lines 594-599: the terminal exists and
\* terminalReadyRef resolves
TerminalReady ==
  /\ mountedRef
  /\ ~terminalRef
  /\ terminalRef' = TRUE
  /\ UNCHANGED << mountedRef, connectionIdRef, statusRef, errorRef,
                  sessionEndedRef, paneSocket, ppc, outer, paused, sock,
                  handlers, frames, disposables, refresh, written,
                  typed >>
  /\ UNCHANGED offPane

\* the locals of a call that returned are gone
Returned(f, c) == [f EXCEPT ![c] = 0]

\* the top of the retry loop (part_005 lines 1025-1031): the call returns if
\* it was superseded or the pane unmounted, otherwise it calls
\* startSessionOnce, which awaits the mutation
LoopTop(c) == IF Stale(c) \/ ~mountedRef THEN "done" ELSE "mutate"

\* startSession (part_005 lines 987-1031) up to its first await
StartSessionCall ==
  /\ mountedRef
  /\ connectionIdRef < MaxStarts
  /\ LET c == connectionIdRef + 1
         pos == IF ~terminalRef THEN "termwait" ELSE "mutate"
     IN  /\ sessionEndedRef' = FALSE
         /\ statusRef' = "starting"
         /\ errorRef' = Null
         /\ connectionIdRef' = c
         /\ ppc' = [ppc EXCEPT ![c] = pos]
  /\ UNCHANGED << mountedRef, terminalRef, paneSocket, outer, paused, sock,
                  handlers, frames, disposables, refresh, written,
                  typed >>
  /\ UNCHANGED offPane

\* the terminal became ready while the call waited for it (part_005 lines
\* 1001-1018)
TerminalWaitReady ==
  /\ \E c \in Starts :
       /\ ppc[c] = "termwait"
       /\ terminalRef
       /\ ppc' = [ppc EXCEPT ![c] = LoopTop(c)]
  /\ UNCHANGED << mountedRef, terminalRef, connectionIdRef, statusRef,
                  errorRef, sessionEndedRef, paneSocket, outer, paused, sock,
                  handlers, frames, disposables, refresh, written,
                  typed >>
  /\ UNCHANGED offPane

\* the 10 s timer of the wait for the terminal wins the race (part_005
\* lines 1004-1016)
TerminalWaitTimeout ==
  /\ \E c \in Starts :
       /\ ppc[c] = "termwait"
       /\ ~terminalRef
       /\ statusRef' = "error"
       /\ errorRef' = "Terminal is not ready."
       /\ ppc' = [ppc EXCEPT ![c] = "done"]
  /\ UNCHANGED << mountedRef, terminalRef, connectionIdRef, sessionEndedRef,
                  paneSocket, outer, paused, sock, handlers, frames,
                  disposables, refresh, written, typed >>
  /\ UNCHANGED offPane

\* the catch block of the retry loop and what follows the loop (part_005
\* lines 1033-1053), for an attempt of call c that threw msg
Catch(c, msg) ==
  IF outer[c] < maxOuterAttempts - 1
  THEN IF ~mountedRef
       THEN /\ ppc' = [ppc EXCEPT ![c] = "done"]
            /\ outer' = Returned(outer, c)
            /\ UNCHANGED << statusRef, errorRef, paused >>
       ELSE /\ statusRef' = "starting"
            /\ errorRef' = Null
            /\ paused' = [paused EXCEPT ![c] = 2000 * (outer[c] + 1)]
            /\ ppc' = [ppc EXCEPT ![c] = "wait"]
            /\ UNCHANGED outer
  ELSE /\ statusRef' = "error"
       /\ errorRef' = msg
       /\ ppc' = [ppc EXCEPT ![c] = "done"]
       /\ outer' = Returned(outer, c)
       /\ UNCHANGED paused

\* the mutation resolved (part_005 lines 680-714 and 834-835): a stale call
\* returns; a current call closes the previous socket and starts to connect
MutationOk ==
  /\ \E c \in Starts :
       /\ ppc[c] = "mutate"
       /\ IF Stale(c)
          THEN /\ ppc' = [ppc EXCEPT ![c] = "done"]
               /\ outer' = Returned(outer, c)
               /\ UNCHANGED << statusRef, disposables, handlers, sock >>
          ELSE /\ statusRef' = "connecting"
               /\ disposables' = FALSE
               /\ handlers' = handlers \ {paneSocket}
               /\ sock' = IF paneSocket # 0
                          THEN [sock EXCEPT ![paneSocket] = Close(@)]
                          ELSE sock
               /\ ppc' = [ppc EXCEPT ![c] = "connect"]
               /\ UNCHANGED outer
  /\ UNCHANGED << mountedRef, terminalRef, connectionIdRef, errorRef,
                  sessionEndedRef, paneSocket, paused, frames, refresh,
                  written, typed >>
  /\ UNCHANGED offPane

\* the mutation rejected (part_005 lines 680-685, 1033-1053)
MutationThrows ==
  /\ \E c \in Starts :
       /\ ppc[c] = "mutate"
       /\ Catch(c, "start failed")
  /\ UNCHANGED << mountedRef, terminalRef, connectionIdRef, sessionEndedRef,
                  paneSocket, sock, handlers, frames, disposables, refresh,
                  written, typed >>
  /\ UNCHANGED offPane

\* connectSocket returned an open socket and the call installs it without
\* looking at connectionIdRef
ConnectSocketOkNoCheck ==
  /\ \E c \in Starts, sized \in BOOLEAN :
       /\ ppc[c] = "connect"
       /\ outer' = Returned(outer, c)
       /\ paneSocket' = c
       /\ written' = 0
       /\ sock' = [sock EXCEPT ![c] = "open"]
       /\ disposables' = TRUE
       /\ handlers' = handlers \cup {c}
       /\ statusRef' = "connected"
       /\ IF sized
          THEN /\ frames' = Sent(Sent(frames, c, "h"), c, "1")
               /\ refresh' = refresh \cup {c}
               /\ ppc' = [ppc EXCEPT ![c] = "done"]
          ELSE /\ ppc' = [ppc EXCEPT ![c] = "size"]
               /\ UNCHANGED << frames, refresh >>
  /\ UNCHANGED << mountedRef, terminalRef, connectionIdRef, errorRef,
                  sessionEndedRef, paused, typed >>
  /\ UNCHANGED offPane

\* connectSocket returned an open socket (part_005 lines 835-963).  A stale
\* call closes it.  A current call installs it, resets the terminal,
\* registers the terminal listeners and the socket handlers, and then either
\* sends the handshake at once (the terminal has its size) or, with the
\* terminal still too small, waits inside ensureTerminalSize.
ConnectSocketOk ==
  /\ \E c \in Starts, sized \in BOOLEAN :
       /\ ppc[c] = "connect"
       /\ outer' = Returned(outer, c)
       /\ IF Stale(c)
          THEN /\ sock' = [sock EXCEPT ![c] = "closing"]
               /\ ppc' = [ppc EXCEPT ![c] = "done"]
               /\ UNCHANGED << paneSocket, disposables, handlers, statusRef,
                               frames, refresh, written >>
          ELSE /\ paneSocket' = c
               /\ written' = 0
               /\ sock' = [sock EXCEPT ![c] = "open"]
               /\ disposables' = TRUE
               /\ handlers' = handlers \cup {c}
               /\ statusRef' = "connected"
               /\ IF sized
                  THEN /\ frames' = Sent(Sent(frames, c, "h"), c, "1")
                       /\ refresh' = refresh \cup {c}
                       /\ ppc' = [ppc EXCEPT ![c] = "done"]
                  ELSE /\ ppc' = [ppc EXCEPT ![c] = "size"]
                       /\ UNCHANGED << frames, refresh >>
  /\ UNCHANGED << mountedRef, terminalRef, connectionIdRef, errorRef,
                  sessionEndedRef, paused, typed >>
  /\ UNCHANGED offPane

\* connectSocket threw after its three attempts (part_005 lines 726-758,
\* 1033-1053)
ConnectSocketThrows ==
  /\ \E c \in Starts :
       /\ ppc[c] = "connect"
       /\ Catch(c, "Failed to connect to ttyd.")
  /\ UNCHANGED << mountedRef, terminalRef, connectionIdRef, sessionEndedRef,
                  paneSocket, sock, handlers, frames, disposables, refresh,
                  written, typed >>
  /\ UNCHANGED offPane

\* ensureTerminalSize returned after waiting (part_005 lines 935-963): the
\* handshake goes to the socket of the call, the resize to socketRef.current
EnsureTerminalSize ==
  /\ \E c \in Starts :
       /\ ppc[c] = "size"
       /\ frames' = SendActive(SendHandshake(frames, c), "1")
       /\ refresh' = refresh \cup {c}
       /\ ppc' = [ppc EXCEPT ![c] = "done"]
  /\ UNCHANGED << mountedRef, terminalRef, connectionIdRef, statusRef,
                  errorRef, sessionEndedRef, paneSocket, outer, paused, sock,
                  handlers, disposables, written, typed >>
  /\ UNCHANGED offPane

\* the wait between two attempts is over (part_005 lines 1044-1045 and the
\* next turn of the loop, lines 1025-1031)
RetryWait ==
  /\ \E c \in Starts :
       /\ ppc[c] = "wait"
       /\ paused' = Returned(paused, c)
       /\ IF ~mountedRef
          THEN /\ ppc' = [ppc EXCEPT ![c] = "done"]
               /\ outer' = Returned(outer, c)
          ELSE /\ ppc' = [ppc EXCEPT ![c] = LoopTop(c)]
               /\ outer' = IF LoopTop(c) = "done" THEN Returned(outer, c)
                           ELSE [outer EXCEPT ![c] = @ + 1]
  /\ UNCHANGED << mountedRef, terminalRef, connectionIdRef, statusRef,
                  errorRef, sessionEndedRef, paneSocket, sock, handlers,
                  frames, disposables, refresh, written, typed >>
  /\ UNCHANGED offPane

\* the terminal's onData / onResize listeners (part_005 lines 848-852): a
\* key stroke calls sendInput, a resize of the terminal calls sendResize
TerminalEvent ==
  /\ disposables
  /\ typed < MaxTyped
  /\ typed' = typed + 1
  /\ \E f \in {"0", "1"} : frames' = SendActive(frames, f)
  /\ UNCHANGED << mountedRef, terminalRef, connectionIdRef, statusRef,
                  errorRef, sessionEndedRef, paneSocket, ppc, outer, paused,
                  sock, handlers, disposables, refresh, written >>
  /\ UNCHANGED offPane

\* the 200 ms timer of part_005 lines 949-954 fires
ResizeRefresh ==
  /\ \E c \in refresh :
       /\ refresh' = refresh \ {c}
       /\ frames' = SendActive(frames, "1")
  /\ UNCHANGED << mountedRef, terminalRef, connectionIdRef, statusRef,
                  errorRef, sessionEndedRef, paneSocket, ppc, outer, paused,
                  sock, handlers, disposables, written,
                  typed >>
  /\ UNCHANGED offPane

\* socket.onerror (part_005 lines 856-861)
PaneSocketError ==
  /\ \E s \in Starts :
       /\ sock[s] = "open"
       /\ s \in handlers
       /\ IF Stale(s)
          THEN UNCHANGED << statusRef, errorRef >>
          ELSE /\ statusRef' = "error"
               /\ errorRef' = "Failed to connect to ttyd. Check the container."
  /\ UNCHANGED << mountedRef, terminalRef, connectionIdRef, sessionEndedRef,
                  paneSocket, ppc, outer, paused, sock, handlers, frames,
                  disposables, refresh, written, typed >>
  /\ UNCHANGED offPane

\* the socket of call s closes; socket.onclose (part_005 lines 863-874) runs
\* if it is still set
PaneSocketClose ==
  /\ \E s \in Starts :
       /\ sock[s] \in {"open", "closing"}
       /\ sock' = [sock EXCEPT ![s] = "closed"]
       /\ IF s \in handlers /\ ~Stale(s)
          THEN /\ statusRef' = IF statusRef = "connected"
                               THEN "idle" ELSE "error"
               /\ errorRef' = IF ~sessionEndedRef /\ errorRef = Null
                              THEN "Connection closed before opening."
                              ELSE errorRef
          ELSE UNCHANGED << statusRef, errorRef >>
  /\ UNCHANGED << mountedRef, terminalRef, connectionIdRef, sessionEndedRef,
                  paneSocket, ppc, outer, paused, handlers, frames,
                  disposables, refresh, written, typed >>
  /\ UNCHANGED offPane

\* socket.onmessage / handleMessage (part_005 lines 876-929) for an output
\* frame: text that announces the end of the session closes the socket,
\* any other text is written to the terminal
PaneSocketMessage ==
  /\ \E s \in Starts, ended \in BOOLEAN :
       /\ sock[s] = "open"
       /\ s \in handlers
       /\ IF Stale(s)
          THEN UNCHANGED << sessionEndedRef, sock, written >>
          ELSE IF ended
          THEN /\ sessionEndedRef' = TRUE
               /\ sock' = [sock EXCEPT ![s] = "closing"]
               /\ UNCHANGED written
          ELSE /\ written' = s
               /\ UNCHANGED << sessionEndedRef, sock >>
  /\ UNCHANGED << mountedRef, terminalRef, connectionIdRef, statusRef,
                  errorRef, paneSocket, ppc, outer, paused, handlers, frames,
                  disposables, refresh, typed >>
  /\ UNCHANGED offPane

\* the pane unmounts (part_005 lines 78-83 and 612-629, 642-647): the
\* terminal's cleanup closes socketRef.current and disposes the listeners
PaneUnmount ==
  /\ mountedRef
  /\ mountedRef' = FALSE
  /\ IF terminalRef
     THEN /\ sock' = IF paneSocket # 0
                     THEN [sock EXCEPT ![paneSocket] = Close(@)]
                     ELSE sock
          /\ disposables' = FALSE
     ELSE UNCHANGED << sock, disposables >>
  /\ UNCHANGED << terminalRef, connectionIdRef, statusRef, errorRef,
                  sessionEndedRef, paneSocket, ppc, outer, paused, handlers,
                  frames, refresh, written, typed >>
  /\ UNCHANGED offPane

PaneInit ==
  /\ StoreStarted
  /\ ServiceIdle
  /\ BridgeIdle
  /\ BroadcastIdle
  /\ ForwarderIdle
  /\ GitIdle
  /\ PaneIdle
  /\ StatusIdle
  /\ HooksIdle

PaneNext ==
  \/ TerminalReady
  \/ StartSessionCall
  \/ TerminalWaitReady
  \/ TerminalWaitTimeout
  \/ MutationOk
  \/ MutationThrows
  \/ ConnectSocketOk
  \/ ConnectSocketThrows
  \/ EnsureTerminalSize
  \/ RetryWait
  \/ TerminalEvent
  \/ ResizeRefresh
  \/ PaneSocketError
  \/ PaneSocketClose
  \/ PaneSocketMessage
  \/ PaneUnmount

PaneSpec == PaneInit /\ [][PaneNext]_vars

\* ------------------------------------------------ gitService (cloneOrPull)
\* session.service.ts lines 589-694.  A string is a sequence of
\* characters, a path a sequence of segments.

\* Characters of a repository string: a letter, the dot, the separator and
\* white space.
Chars == { "a", ".", "/", " " }

Strings == UNION { [1..n -> Chars] : n \in 0..MaxChars }

\* lines 589-591: path.resolve(env.AGENT_WORKSPACE), an absolute path.
AGENT_WORKSPACE == << << "s", "r", "v" >>, << "w", "s" >> >>

\* line 593
REPOS_SUBDIR == << "r", "e", "p", "o", "s" >>

RECURSIVE trimStart(_)
trimStart(s) ==
  IF s # <<>> /\ Head(s) = " " THEN trimStart(Tail(s)) ELSE s

RECURSIVE trimEnd(_)
trimEnd(s) ==
  IF s # <<>> /\ s[Len(s)] = " "
  THEN trimEnd(SubSeq(s, 1, Len(s) - 1)) ELSE s

\* String.prototype.trim
trim(s) == trimEnd(trimStart(s))

RECURSIVE splitFrom(_, _)
splitFrom(s, part) ==
  IF s = <<>> THEN << part >>
  ELSE IF Head(s) = "/"
       THEN << part >> \o splitFrom(Tail(s), <<>>)
       ELSE splitFrom(Tail(s), Append(part, Head(s)))

\* String.prototype.split("/"): the pieces between the separators, empty
\* ones included.
split(s) == splitFrom(s, <<>>)

\* lines 599-600: whether parseRepository accepts the string (it throws
\* otherwise).
Accepted(s) ==
  LET parts == split(trim(s))
  IN  /\ Len(parts) = 2
      /\ parts[1] # <<>>
      /\ parts[2] # <<>>

\* lines 598-606
parseRepository(s) ==
  LET parts == split(trim(s))
  IN  [owner |-> parts[1], repo |-> parts[2]]

RECURSIVE normalize(_, _)
normalize(segments, done) ==
  IF segments = <<>> THEN done
  ELSE LET seg == Head(segments)
       IN  IF seg = <<>> \/ seg = << "." >>
           THEN normalize(Tail(segments), done)
           ELSE IF seg = << ".", "." >>
                THEN normalize(Tail(segments),
                               SubSeq(done, 1, Len(done) - 1))
                ELSE normalize(Tail(segments), Append(done, seg))

\* path.join of an absolute path and further segments: the segments are
\* joined and the result normalised, "." dropped and ".." removing the
\* segment before it.
join(segments) == normalize(segments, <<>>)

\* lines 611-616
getRepoPath(owner, repo) ==
  join(AGENT_WORKSPACE \o << REPOS_SUBDIR, owner, repo >>)

\* What the file system may hold at a path: nothing, a directory without
\* .git, a git repository.
Dirs == { "absent", "plain", "git" }

Op(kind) == [kind |-> kind, path |-> repoPath]

\* lines 647, 598-604: parseRepository throws.
ParseThrows ==
  /\ gpc = "idle"
  /\ ~Accepted(repository)
  /\ gpc' = "thrown"
  /\ UNCHANGED << repository, repoPath, dir, ops >>
  /\ UNCHANGED offGit

\* lines 647-648: the string is accepted and the path computed.
ResolvePath ==
  /\ gpc = "idle"
  /\ Accepted(repository)
  /\ LET parsed == parseRepository(repository)
     IN  repoPath' = getRepoPath(parsed.owner, parsed.repo)
  /\ gpc' = "check"
  /\ UNCHANGED << repository, dir, ops >>
  /\ UNCHANGED offGit

\* lines 658-670: the directory is a git repository; fetch and reset in it
\* succeed.
Pull ==
  /\ gpc = "check"
  /\ dir = "git"
  /\ ops' = ops \o << Op("reset") >>
  /\ gpc' = "done"
  /\ UNCHANGED << repository, repoPath, dir >>
  /\ UNCHANGED offGit

\* lines 671-679: fetch or reset fails; the directory is removed and the
\* repository cloned again.
PullFails ==
  /\ gpc = "check"
  /\ dir = "git"
  /\ ops' = ops \o << Op("reset"), Op("rm"), Op("clone") >>
  /\ gpc' = "done"
  /\ UNCHANGED << repository, repoPath, dir >>
  /\ UNCHANGED offGit

\* lines 680-687: the directory is not a git repository; it is removed and
\* the repository cloned.
RemoveAndClone ==
  /\ gpc = "check"
  /\ dir = "plain"
  /\ ops' = ops \o << Op("rm"), Op("clone") >>
  /\ dir' = "git"
  /\ gpc' = "done"
  /\ UNCHANGED << repository, repoPath >>
  /\ UNCHANGED offGit

\* lines 688-691: nothing at the path; the repository is cloned.
CloneFresh ==
  /\ gpc = "check"
  /\ dir = "absent"
  /\ ops' = ops \o << Op("clone") >>
  /\ dir' = "git"
  /\ gpc' = "done"
  /\ UNCHANGED << repository, repoPath >>
  /\ UNCHANGED offGit

\* cloneOrPull is called with any string, on any state of the directory.
GitInit ==
  /\ StoreStarted
  /\ ServiceIdle
  /\ BridgeIdle
  /\ BroadcastIdle
  /\ ForwarderIdle
  /\ PaneIdle
  /\ StatusIdle
  /\ HooksIdle
  /\ gpc = "idle"
  /\ repository \in Strings
  /\ repoPath = <<>>
  /\ dir \in Dirs
  /\ ops = <<>>

GitNext ==
  \/ ParseThrows
  \/ ResolvePath
  \/ Pull
  \/ PullFails
  \/ RemoveAndClone
  \/ CloneFresh

GitSpec == GitInit /\ [][GitNext]_vars

\* ------------------------------------------------------------ properties

Count(seq, S) == Cardinality({i \in DOMAIN seq : seq[i] \in S})

RunEntries == {"run", "run!locked", "run!conflict", "run!other"}
RestartEntries == {"restart", "restart!"}
StartEntries == {"start", "start!"}

Runs(p) == Count(log[p], RunEntries)
Restarts(p) == Count(log[p], RestartEntries)
Sleeps(p) == Count(log[p], {"sleep"})

IsStart(p) == arg[p].op = "start"
Derived(p) == [containerName |-> Name(p)]
WroteRunning(p) == wrote[p] = [containerName |-> Name(p), status |-> "running"]

C2_ExactlyOneLaunch ==
  \A p \in Procs :
    (IsStart(p) /\ arg[p].reset /\ pc[p] = "done")
      => Runs(p) + Restarts(p) = 1

\* C2 amended: a successful start with reset=true has issued exactly one
\* restart and no run when the probe found the container, and no restart and
\* 1 + (layer-lock retries) + (conflict recoveries that removed the
\* container) run calls, at most MAX_LAYER_RETRIES + 2, when it was missing.
C2_LaunchCount ==
  \A p \in Procs :
    (IsStart(p) /\ arg[p].reset /\ pc[p] = "done")
      => /\ probe1[p] # "none"
         /\ probe1[p] # "null" => (Restarts(p) = 1 /\ Runs(p) = 0)
         /\ probe1[p] = "null" =>
              /\ Restarts(p) = 0
              /\ Runs(p) = 1 + Sleeps(p) + Count(log[p], {"safeRemove"})
              /\ Runs(p) >= 1 /\ Runs(p) <= MAX_LAYER_RETRIES + 2

\* C2 witness: a successful reset start that called run twice.
C2_Witness ==
  \E p \in Procs :
    IsStart(p) /\ arg[p].reset /\ pc[p] = "done" /\ Runs(p) = 2

\* C3: a start with reset=true never returns without the probe, and when the
\* probe finds the container (running or stopped) the call issues restart on
\* it, also for a session loaded as running.
C3_ResetNeverShortCircuits ==
  \A p \in Procs :
    (IsStart(p) /\ arg[p].reset) =>
      /\ pc[p] = "done" => (probe1[p] # "none" /\ WroteRunning(p))
      /\ (probe1[p] \in {"true", "false"}
            /\ pc[p] \in {"reprobe", "update", "notify", "done"})
         => log[p][1] = "restart"
      /\ (probe1[p] \in {"true", "false"} /\ pc[p] = "failed")
         => log[p] = <<"restart!">> \/ log[p][1] = "restart"

\* C3 witness: a reset start of a session loaded as running, whose container
\* the probe found running, has returned after a restart.
C3_Witness ==
  \E p \in Procs :
    /\ IsStart(p) /\ arg[p].reset /\ pc[p] = "done"
    /\ row[p] = "running" /\ probe1[p] = "true"
    /\ log[p][1] = "restart"

\* C4: a session row is changed to (or rewritten as) running only by the
\* update step of a start on that session whose re-probe returned running,
\* and the same write sets containerName to the derived name; hence every
\* row stored as running carries the derived, non-null containerName.
C4_RunningOnlyAfterProbe ==
  [][ /\ \A s \in Sessions :
           (sessions'[s].status = "running" /\ sessions'[s] # sessions[s])
           => \E p \in Procs :
                 /\ IsStart(p) /\ pc[p] = "update" /\ pc'[p] = "notify"
                 /\ arg[p].sessionId = s
                 /\ probe2[p] = "true"
                 /\ sessions'[s].containerName = AgentContainer(s)
      /\ \A p \in Procs :
           (wrote'[p] # wrote[p] /\ wrote'[p] # NoResult)
           => probe2[p] = "true" /\ WroteRunning(p)'
      /\ \A s \in Sessions :
           sessions[s].status = "running"
           => sessions[s].containerName = AgentContainer(s) ]_vars

\* C4 witness: a start has just written running after its re-probe.
C4_Witness ==
  \E p \in Procs :
    /\ IsStart(p) /\ pc[p] = "notify" /\ probe2[p] = "true"
    /\ WroteRunning(p) /\ row[p] = "pending"
    /\ sessions[arg[p].sessionId].status = "running"

\* C5 as claimed: whenever no operation is in progress, a session stored as
\* running has a containerName and that container exists in the engine.
C5_RunningHasContainer ==
  (\A p \in Procs : Free(p)) =>
    \A s \in Sessions :
      sessions[s].status = "running" =>
        /\ sessions[s].containerName # Null
        /\ container[sessions[s].containerName] # "missing"

Cold(p) == IsStart(p) /\ row[p] = "pending" /\ probe1[p] = "null"

\* C6 as claimed: of two start calls in progress for the same session, both
\* of which loaded it as pending and probed its container as missing, at
\* most one has called run.
C6_NoDuplicateRun ==
  \A p, q \in Procs :
    ( /\ p # q /\ Cold(p) /\ Cold(q) /\ ~Free(p) /\ ~Free(q)
      /\ arg[p].sessionId = arg[q].sessionId )
    => ~(Runs(p) >= 1 /\ Runs(q) >= 1)

\* A call that has done its first store or driver operation and has one left.
Inside(p) ==
  \/ IsStart(p) /\ pc[p] \in {"load", "probe", "resolve", "run", "cstart",
                              "csafe", "crun", "restart", "dstart", "reprobe",
                              "update"}
                /\ (pc[p] = "load" => ~arg[p].reset)
  \/ arg[p].op = "stop" /\ pc[p] = "st_probe"

\* C7 as claimed: no two start / stop calls for one session are in progress
\* at the same time.
C7_MutualExclusion ==
  \A p, q \in Procs :
    (p # q /\ Inside(p) /\ Inside(q)) => arg[p].sessionId # arg[q].sessionId

IsLaunchEntry(e) == e \notin {"exec", "update", "notify"}

\* C8: a start that loaded the session as pending, probed its container as
\* missing and returned with no driver call failing has called
\* ensureNetwork, pull and run once each, run last, then written running with
\* the derived name, then notified once if the updated row had a project.
C8_ColdStart ==
  \A p \in Procs :
    ( /\ Cold(p) /\ pc[p] = "done"
      /\ \A i \in DOMAIN log[p] :
           log[p][i] \in {"ensureNetwork", "pull", "run", "exec", "update",
                          "notify"} )
    => /\ SelectSeq(log[p], IsLaunchEntry) = <<"ensureNetwork", "pull", "run">>
       /\ SelectSeq(log[p], LAMBDA e : e # "exec") =
            <<"ensureNetwork", "pull", "run", "update">>
              \o (IF proj[p] # Null THEN <<"notify">> ELSE <<>>)
       /\ WroteRunning(p)
       /\ result[p] = Derived(p)

\* C8 witness: such a cold start has returned and notified.
C8_Witness ==
  \E p \in Procs :
    /\ Cold(p) /\ pc[p] = "done"
    /\ log[p] = <<"ensureNetwork", "pull", "run", "exec", "update",
                  "notify">>
    /\ sessions[arg[p].sessionId].status = "running"

\* C9 as claimed: a start all of whose run calls failed with a layer lock
\* has called run at most MAX_LAYER_RETRIES = 5 times.
C9_AtMostFiveRuns ==
  \A p \in Procs :
    (IsStart(p) /\ Runs(p) = Count(log[p], {"run!locked"}))
      => Runs(p) <= MAX_LAYER_RETRIES

\* C9 amended: a start all of whose run calls failed with a layer lock has
\* called run at most MAX_LAYER_RETRIES + 1 = 6 times, has slept after each
\* of the first 5 and not after the 6th, and after the 6th it has failed
\* with the driver's error.
C9_AtMostSixRuns ==
  \A p \in Procs :
    (IsStart(p) /\ Runs(p) = Count(log[p], {"run!locked"}))
      => /\ Runs(p) <= MAX_LAYER_RETRIES + 1
         /\ Sleeps(p) = IF Runs(p) <= MAX_LAYER_RETRIES THEN Runs(p)
                        ELSE MAX_LAYER_RETRIES
         /\ \A i \in DOMAIN log[p] :
              log[p][i] = "sleep" => (i > 1 /\ log[p][i - 1] = "run!locked")
         /\ Runs(p) = MAX_LAYER_RETRIES + 1
              => (pc[p] = "failed" /\ err[p] = "DRIVER")
         /\ (Runs(p) >= 1 /\ Runs(p) <= MAX_LAYER_RETRIES) => pc[p] = "run"

\* C9 witness: six locked run calls, then the failure.
C9_Witness ==
  \E p \in Procs :
    /\ IsStart(p) /\ pc[p] = "failed"
    /\ Count(log[p], {"run!locked"}) = MAX_LAYER_RETRIES + 1

\* C10: after a run of the create loop failed with a name conflict, the next
\* driver call is start(name); safeRemove, ensureNetwork and one more run
\* follow, in that order, only if that start failed; nothing of the loop
\* follows (no sleep, no third run); and a re-probe that finds the container
\* running is followed by the write of status running.
C10_ConflictRecovery ==
  \A p \in Procs : IsStart(p) =>
    /\ \A i \in DOMAIN log[p] :
         (log[p][i] = "run!conflict" /\ probe1[p] = "null"
            /\ (i = 1 \/ log[p][i - 1] # "ensureNetwork")) =>
           LET tail == SelectSeq(SubSeq(log[p], i + 1, Len(log[p])),
                                 IsLaunchEntry) IN
           \/ tail = <<>> /\ pc[p] = "cstart"
           \/ tail = <<"start">>
                /\ pc[p] \in {"reprobe", "update", "notify", "done", "failed"}
                /\ (pc[p] = "failed" => err[p] = "NOT_RUNNING")
           \/ tail = <<"start!">> /\ pc[p] = "csafe"
           \/ tail = <<"start!", "safeRemove!">> /\ pc[p] = "failed"
           \/ tail = <<"start!", "safeRemove">> /\ pc[p] = "crun"
           \/ tail = <<"start!", "safeRemove", "ensureNetwork!">>
                /\ pc[p] = "failed"
           \/ tail = <<"start!", "safeRemove", "ensureNetwork", "run">>
                /\ pc[p] \in {"reprobe", "update", "notify", "done", "failed"}
                /\ (pc[p] = "failed" => err[p] = "NOT_RUNNING")
           \/ /\ Len(tail) = 4
              /\ SubSeq(tail, 1, 3) = <<"start!", "safeRemove", "ensureNetwork">>
              /\ tail[4] \in {"run!locked", "run!conflict", "run!other"}
              /\ pc[p] = "failed" /\ err[p] = "DRIVER"
    /\ Count(log[p], {"run!conflict"}) >= 1 =>
         /\ probe2[p] = "true" => pc[p] \in {"update", "notify", "done"}
         /\ pc[p] \in {"notify", "done"} => WroteRunning(p)

\* C10 witness: a start recovered from a name conflict through a failed
\* start(name), safeRemove, ensureNetwork and a second run, and returned with
\* the session stored as running.
C10_Witness ==
  \E p \in Procs :
    /\ IsStart(p) /\ pc[p] = "done"
    /\ SelectSeq(log[p], IsLaunchEntry) =
         <<"ensureNetwork", "pull", "run!conflict", "start!", "safeRemove",
           "ensureNetwork", "run">>
    /\ sessions[arg[p].sessionId].status = "running"

LastLog(p) == log[p][Len(log[p])]

\* C11 as claimed: a start that failed on an unrecoverable driver failure of
\* the create loop (a run error that is neither conflict nor lock, the lock
\* of the last attempt, or the failed second run of the conflict recovery)
\* leaves the session stored with status error.
C11_ErrorStatusOnFailure ==
  \A p \in Procs :
    ( /\ IsStart(p) /\ pc[p] = "failed" /\ err[p] = "DRIVER"
      /\ log[p] # <<>>
      /\ LastLog(p) \in {"run!other", "run!locked", "run!conflict"} )
    => sessions[arg[p].sessionId].status = "error"

\* C12: the load step of start fails with NOT_FOUND exactly when the session
\* id has no row, the row belongs to another user or the row is stopped; the
\* call has then made no driver call, no store write and no notification,
\* and the step changes neither the store nor any container.
C12_NotFound ==
  [][\A p \in Procs :
       (pc[p] = "load" /\ pc'[p] # "load") =>
         LET s == arg[p].sessionId
             nf == \/ s \notin Sessions
                   \/ sessions[s].userId # arg[p].userId
                   \/ sessions[s].status = "stopped"
         IN /\ nf => /\ pc'[p] = "failed" /\ err'[p] = "NOT_FOUND"
                      /\ log'[p] = <<>> /\ wrote'[p] = NoResult
                      /\ sessions' = sessions /\ project' = project
                      /\ container' = container
            /\ ~nf => pc'[p] = "probe" /\ err'[p] = "none"]_vars

\* C12 witness: a start by the owner of a session that a project delete left
\* stopped has failed with NOT_FOUND, having called and written nothing.
C12_Witness ==
  \E p \in Procs :
    /\ IsStart(p) /\ pc[p] = "failed" /\ err[p] = "NOT_FOUND"
    /\ arg[p].sessionId \in Sessions
    /\ sessions[arg[p].sessionId].userId = arg[p].userId
    /\ sessions[arg[p].sessionId].status = "stopped"
    /\ log[p] = <<>> /\ wrote[p] = NoResult

\* C13: when the re-probe reports the container missing or stopped, start
\* fails with the not-running error in that step, which changes no session
\* row and issues no call; a start that failed so has written nothing to the
\* session row, has run no git checkout and has published no notification.
C13_ContainerNotRunning ==
  [][\A p \in Procs :
       /\ (pc[p] = "reprobe" /\ pc'[p] # "reprobe") =>
            /\ container[Name(p)] \in {"missing", "stopped"} =>
                 /\ pc'[p] = "failed" /\ err'[p] = "NOT_RUNNING"
                 /\ sessions' = sessions /\ log'[p] = log[p]
            /\ container[Name(p)] = "running" => pc'[p] = "update"
       /\ err[p] = "NOT_RUNNING" =>
            /\ pc[p] = "failed" /\ wrote[p] = NoResult
            /\ Count(log[p], {"exec", "update", "notify"}) = 0]_vars

\* C13 witness: a start created the container, the re-probe found it missing
\* (a concurrent stop removed it) and the call failed; the row is as loaded.
C13_Witness ==
  \E p \in Procs :
    /\ IsStart(p) /\ pc[p] = "failed" /\ err[p] = "NOT_RUNNING"
    /\ probe2[p] = "null" /\ Runs(p) >= 1
    /\ sessions[arg[p].sessionId].status = row[p]
    /\ sessions[arg[p].sessionId].containerName = Null

LaunchOk == {"run", "start", "restart"}

TraversalSuffix(suffix) ==
  \/ Includes(suffix, <<".", ".">>)
  \/ Includes(suffix, <<"/">>)
  \/ Includes(suffix, <<"\\">>)

\* C14 as claimed: a start call whose workspaceSuffix contains "..", "/" or
\* "\" never returns successfully: it ends rejected (BAD_REQUEST, or
\* NOT_FOUND where C12 rejects the session before the options are read),
\* and it never creates, starts or restarts a container nor writes
\* status running.
C14_InvalidSuffixRejected ==
  \A p \in Procs :
    (IsStart(p) /\ TraversalSuffix(arg[p].workspaceSuffix)) =>
      /\ pc[p] # "done"
      /\ pc[p] = "failed" => err[p] \in {"BAD_REQUEST", "NOT_FOUND"}
      /\ Count(log[p], LaunchOk) = 0
      /\ wrote[p] = NoResult

IsStop(p) == arg[p].op = "stop"
RemoveEntries == {"remove", "remove!nosuch", "remove!other"}

\* C15: the step in which stop(s) returns yields the name derived from s;
\* removed is true exactly when the remove of the agent container succeeded
\* and the probe after it finds the container missing; a "No such
\* container" failure yields removed=false without error; a container that
\* exists at the probe yields removed=false with the "still exists" error.
C15_StopResult ==
  [][\A p \in Procs :
       (IsStop(p) /\ pc[p] # "done" /\ pc'[p] = "done") =>
         LET n == AgentContainer(arg[p].sessionId)
             last == log'[p][Len(log'[p])]
             probed == pc[p] = "st_probe"
         IN /\ result'[p].containerName = n
            /\ probed => last = "remove"
            /\ result'[p].removed
                 <=> (probed /\ last = "remove" /\ container[n] = "missing")
            /\ last = "remove!nosuch" =>
                 (~result'[p].removed /\ result'[p].error = "none")
            /\ (probed /\ container[n] # "missing") =>
                 (~result'[p].removed /\ result'[p].error = "still exists")
            /\ last = "remove!other" =>
                 (~result'[p].removed /\ result'[p].error # "none")]_vars

\* C15 witness: stop removed the container, a concurrent start created it
\* again before the probe, and stop returned removed=false, "still exists".
C15_Witness ==
  \E p \in Procs :
    /\ IsStop(p) /\ pc[p] = "done"
    /\ result[p] = StopResult(FALSE, arg[p].sessionId, "still exists")
    /\ LastLog(p) = "remove"

\* C16 as claimed: a stop whose ingress removal failed has still attempted
\* the remove of the agent container and returns a result, it does not throw.
C16_IngressBestEffort ==
  \A p \in Procs :
    (IsStop(p) /\ Count(log[p], {"safeRemoveIngress!"}) >= 1) =>
      /\ pc[p] # "failed"
      /\ pc[p] = "done" =>
           (Count(log[p], RemoveEntries) = 1 /\ result[p] # NoResult)

\* The sessions a finished cascade found have all had stop invoked and are
\* all stored as stopped.
Cascaded(p) ==
  /\ todo[p].left = {}
  /\ \A s \in todo[p].found : sessions[s].status = "stopped"

\* C17 as claimed: when a project delete has completed, stop has been
\* invoked for every session findMany returned for the project and each of
\* them is stored as stopped; the same when toggleShare(shared=false) has
\* completed, for the active sessions of non-owners it found.
C17_CascadeStop ==
  \A p \in Procs :
    /\ (arg[p].op = "delete" /\ pc[p] = "done") => Cascaded(p)
    /\ (arg[p].op = "toggle" /\ ~arg[p].shared /\ pc[p] = "done")
         => Cascaded(p)

\* a step of the toggleShare call that handler p runs
ToggleStep(p) ==
  /\ arg'[p].op = "toggle"
  /\ << pc[p], cur[p], log[p] >>' # << pc[p], cur[p], log[p] >>

\* C33: no step of a toggleShare call changes the row or the agent container
\* of a session that belongs to the project's owner; no step of
\* toggleShare(shared = true) changes any session row or any container; the
\* call writes the project row only before it notifies, and a call that
\* returns has notified exactly once.
C33_ToggleFrame ==
  /\ [][\A p \in Procs :
          ToggleStep(p) =>
            /\ \A s \in Sessions :
                 sessions[s].userId = project.userId =>
                   /\ sessions'[s] = sessions[s]
                   /\ container'[AgentContainer(s)]
                        = container[AgentContainer(s)]
            /\ arg'[p].shared =>
                 (sessions' = sessions /\ container' = container)
            /\ project' # project =>
                 Count(log'[p], {"notify"}) = 0]_vars
  /\ [](\A p \in Procs :
          (arg[p].op = "toggle" /\ pc[p] = "done") =>
             /\ Count(log[p], {"notify"}) = 1
             /\ log[p][Len(log[p])] = "notify")

\* an un-share by the owner has returned: the session of the non-owner is
\* stopped and out of the project, the owner's session is still running
C33_Witness ==
  \E p \in Procs :
    /\ arg[p].op = "toggle"
    /\ ~arg[p].shared
    /\ pc[p] = "done"
    /\ sessions["s2"].status = "stopped"
    /\ sessions["s2"].projectId = Null
    /\ sessions["s1"].status = "running"
    /\ sessions["s1"].projectId = Pid
    /\ container[AgentContainer("s1")] = "running"

\* C36: a start call that has returned holds a containerName that is not
\* null and is the name derived from its sessionId, whether it launched,
\* restarted or short-circuited on the stored row.
C36_ReturnsDerivedName ==
  \A p \in Procs :
    (arg[p].op = "start" /\ pc[p] = "done") =>
       /\ result[p].containerName # Null
       /\ result[p].containerName = "oc-sess-" \o arg[p].sessionId

\* a start without reset has returned from the short-circuit, having written
\* nothing, after another start took the session from pending to running
C36_Witness ==
  \E p, q \in Procs :
    /\ p # q
    /\ arg[p].op = "start" /\ ~arg[p].reset /\ pc[p] = "done"
    /\ wrote[p] = NoResult
    /\ arg[q].op = "start" /\ pc[q] = "done"
    /\ arg[q].sessionId = arg[p].sessionId
    /\ wrote[q] # NoResult
    /\ row[q] = "pending"

\* C37 as claimed, for the stored status: once the project has been deleted
\* and every call has completed, no session that belonged to the project has
\* status running.
C37_NoRunningAfterDelete ==
  ( /\ ~project.exists
    /\ \A p \in Procs : pc[p] \in {"idle", "done", "failed"}
    /\ \E p \in Procs : arg[p].op = "delete" /\ pc[p] = "done"
    /\ \E p \in Procs : arg[p].op = "start" )
  => \A s \in Sessions : sessions[s].status # "running"

\* ------------------------------------------------- properties of the proxy

\* The connection's user id was resolved and its session exists, is running
\* and is owned by that user or belongs to a shared project.
AccessGranted ==
  /\ conn.userId # Null
  /\ conn.sessionId \in Sessions
  /\ sessions[conn.sessionId].status = "running"
  /\ \/ sessions[conn.sessionId].userId = conn.userId
     \/ sessions[conn.sessionId].projectId = Pid /\ project.shared

Connecting == bpc \in {"direct", "tunnel", "sleep"}

\* C18: an upstream connection is attempted or open, and a client frame is
\* buffered or forwarded, only for a connection with access granted; for any
\* other connection the handler ends with no attempt made, nothing buffered
\* and nothing forwarded, the client socket closed with 1008 "Unauthorized"
\* (no user id) or 1008 "Session not found, not running, or access denied"
\* (unless the client had closed the socket itself).
C18_TerminalAccess ==
  /\ ( Connecting \/ bpc = "bridged" \/ tries > 0 \/ upstream # "none"
       \/ buffer # <<>> \/ delivered # <<>> ) => AccessGranted
  /\ (bpc \notin {"idle", "auth", "access"} /\ ~AccessGranted) =>
       /\ bpc = "closed" /\ tries = 0 /\ upstream = "none"
       /\ buffer = <<>> /\ delivered = <<>>
       /\ client.state = "closed"
       /\ \/ client.reason = "client"
          \/ /\ client.code = 1008
             /\ client.reason =
                  IF conn.userId = Null THEN "Unauthorized"
                  ELSE "Session not found, not running, or access denied"

\* C18 witness: a user who does not own the running session of an unshared
\* project connected, sent a frame and was closed with 1008.
C18_Witness ==
  /\ bpc = "closed" /\ client.code = 1008 /\ conn.userId # Null
  /\ conn.sessionId \in Sessions
  /\ sessions[conn.sessionId].status = "running"
  /\ sessions[conn.sessionId].userId # conn.userId
  /\ ~project.shared
  /\ sent >= 1 /\ delivered = <<>> /\ tries = 0

Increasing(seq) ==
  \A i, j \in DOMAIN seq : i < j => seq[i] < seq[j]

\* C19: the frames sent upstream are in the order the client sent them;
\* none is sent before the upstream is ready; once it is, the frames sent
\* upstream begin with the whole pre-connect buffer, in buffer order.
C19_FifoOrder ==
  /\ Increasing(delivered)
  /\ Increasing(buffer)
  /\ bpc # "bridged" => delivered = <<>>
  /\ bpc = "bridged" =>
       /\ Len(delivered) >= Len(buffer)
       /\ SubSeq(delivered, 1, Len(buffer)) = buffer

\* C19 witness: two buffered frames were flushed and a later frame was
\* forwarded after them.
C19_Witness ==
  /\ bpc = "bridged" /\ Len(buffer) = 2
  /\ delivered = buffer \o <<sent>>

\* C20 as claimed: while the upstream is being connected the pre-connect
\* buffer holds every frame the client has sent since the socket was
\* accepted, also the frames sent during authentication and the access
\* check; and while the upstream is connected and open every frame sent has
\* been delivered to it exactly once.
C20_PreConnectBuffered ==
  /\ Connecting => buffer = [i \in 1..sent |-> i]
  /\ (bpc = "bridged" /\ upstream = "open")
       => \A f \in 1..sent : Count(delivered, {f}) = 1

\* the connections and sleeps of connectToContainerWs so far follow the
\* cycle direct, tunnel, sleep
WireCycle ==
  \A i \in DOMAIN wire :
     wire[i] = CASE i % 3 = 1 -> "direct"
                 [] i % 3 = 2 -> "tunnel"
                 [] OTHER -> "sleep"

\* connectToContainerWs threw and the handler returned
ConnectGaveUp == bpc = "closed" /\ tries > 0

\* C21: connectToContainerWs tries at most 10 attempts, each the direct
\* connection first and the tunnel only after the direct one failed, with a
\* sleep between attempts (at most 9) and none after the last; it tries
\* nothing more once a connection opened; after the 10th attempt failed it
\* has thrown, and whenever it threw the handler closed the client (unless
\* the client had closed itself) with 1011 "Could not connect to terminal",
\* no upstream was kept and no buffered frame was forwarded.
C21_ConnectAttempts ==
  /\ [](/\ WireCycle
        /\ Count(wire, {"direct"}) <= 10
        /\ Count(wire, {"sleep"}) <= 9
        /\ Count(wire, {"direct"}) = tries - (IF bpc = "direct" THEN 1 ELSE 0)
        /\ bpc = "bridged" => wire # <<>> /\ wire[Len(wire)] # "sleep"
        /\ (Len(wire) = 29 /\ upstream = "none") => ConnectGaveUp
        /\ ConnectGaveUp =>
             /\ upstream = "none" /\ delivered = <<>>
             /\ client.state = "closed"
             /\ \/ client.reason = "client"
                \/ /\ client.code = 1011
                   /\ client.reason = "Could not connect to terminal")
  /\ [][(bpc = "bridged" \/ bpc = "closed") => wire' = wire]_vars

\* C21 witness: ten attempts failed, each direct and through the tunnel, with
\* nine sleeps between them; the client, which had sent a frame meanwhile,
\* was closed with 1011 and the frame was not forwarded.
C21_Witness ==
  /\ ConnectGaveUp /\ Len(wire) = 29 /\ tries = 10
  /\ client.code = 1011 /\ client.reason = "Could not connect to terminal"
  /\ buffer # <<>> /\ delivered = <<>>

\* C22 as claimed: once the handler has bridged the sockets, a closed client
\* socket never leaves the upstream open and a closed upstream never leaves
\* the client socket open, also for a client that closed while the upstream
\* was still being connected.
C22_PairedTeardown ==
  bpc = "bridged" =>
     /\ client.state = "closed" => upstream # "open"
     /\ upstream = "closed" => client.state = "closed"

\* C38 as claimed, for termination: connectToContainerWs, once called,
\* returns an open socket or throws.
C38_ConnectTerminates ==
  (bpc = "direct") ~> (bpc = "bridged" \/ bpc = "closed")

\* ------------------------------------------- properties of the broadcasters

\* C23 as claimed: a notify invokes every handler subscribed to its topic
\* at the call, in subscription order, also when one of them throws.
C23_NotifyInvokesAll == note.ran = note.subs

\* C24 as claimed: every notify for a project invokes each handler exactly
\* once for each subscription of it to that broadcaster and project that was
\* made and not unsubscribed before the call; a handler subscribed only to
\* another project or unsubscribed before the call is not invoked.
C24_SubscribedDelivered ==
  [][notified' # notified =>
       \A h \in Handlers :
          Count(note'.ran, {h}) =
            Count(emitter[Topic(note'.emitter, note'.projectId)], {h})]_vars

\* The same for the notifies in which no handler throws.
SubscribedDeliveredUnlessThrown ==
  [][(notified' # notified /\ ~note'.threw) =>
       \A h \in Handlers :
          Count(note'.ran, {h}) =
            Count(emitter[Topic(note'.emitter, note'.projectId)], {h})]_vars

\* --------------------------------------------- properties of the forwarder

Routed == fpc \in {"connecting", "piped", "destroyed"}

\* "Upgrade: websocket" occurs in the first 512 bytes of the chunk
HasUpgradeHeader(c) ==
  \E i \in DOMAIN ChunkToString(c, 0, 512) :
     ChunkToString(c, 0, 512)[i] = << "Upgrade: websocket" >>

\* C25 as claimed: a connection is routed to the proxy port exactly if the
\* first 512 bytes of its first chunk contain "Upgrade: websocket" and begin
\* with "GET " and one of the three prefixes; else to the application port.
C25_ForwarderRouting ==
  Routed =>
    port = IF /\ HasUpgradeHeader(chunk)
              /\ chunk[1] \in { Get("/terminal/"), Get("/presence/"),
                                 Get("/sessions/") }
           THEN 7682 ELSE 3001

\* C26: the chunks written to the target begin with the first chunk, which
\* is written exactly once, followed by later chunks in the order sent;
\* nothing is written before the target connects, and once the pipe is
\* installed the first chunk has been written.
C26_FirstChunkFirst ==
  /\ fpc \in {"idle", "sniff", "connecting"} => received = <<>>
  /\ received # <<>> => received[1] = 0
  /\ Count(received, {0}) <= 1
  /\ Increasing(received)
  /\ fpc = "piped" => Count(received, {0}) = 1

\* C26 witness: a later chunk arrived while the target was connecting and
\* another after the pipe was installed; the target got the first chunk and
\* then both.
C26_Witness ==
  /\ fpc = "piped"
  /\ received = << 0, 1, 2 >>

\* C39 as claimed: once the pipe is installed the target has received the
\* first chunk and every later chunk the client has sent, in the order sent,
\* including chunks that arrived while the target was connecting.
C39_NoClientDataLost ==
  fpc = "piped" => received = [i \in 1..(later + 1) |-> i - 1]

\* ------------------------------------------------- properties of the hooks

\* C27: in the presence and sessions hooks the delay of the retry timer
\* armed for the k-th reconnect since the last open of a run's socket is
\* min(1000 * 2^(k-1), 30000) ms, never below 1000 nor above 30000, and
\* while a socket is open the next delay is 1000.
C27_Backoff ==
  \A g \in Gens :
     /\ fails[g] > 0 =>
          /\ lastDelay[g] = Min(1000 * 2^(fails[g] - 1), 30000)
          /\ lastDelay[g] >= 1000 /\ lastDelay[g] <= 30000
     /\ g \in pending => fails[g] > 0
     /\ ws[g] = "open" => cells[Cell(g)].retryDelay = 1000

\* C27 witness: the seventh consecutive reconnect of a run is scheduled
\* with the capped delay of 30 s.
C27_Witness ==
  \E g \in Gens :
     g \in pending /\ fails[g] = 7 /\ lastDelay[g] = 30000

\* C28 as claimed: the list changes only in a step that is neither a socket
\* close or error, nor a timer, nor a cleanup, nor a render (a frame arrived
\* or addSession was called), and then to an array of entries; or in a
\* render that disables the subscription or unsets the project, and then to
\* the empty list.
C28_ListKept ==
  [][list' # list =>
       \/ /\ UNCHANGED << ws, cells, pending, intervals, socketRef, cleaned,
                          props, mounted >>
          /\ list'.array
       \/ /\ props' # props
          /\ ~props'.enabled \/ props'.projectId = Null
          /\ list' = EmptyList]_vars

\* C29 as claimed: a run of the effect that has been cleaned up opens no
\* WebSocket.
C29_NoStaleReconnect ==
  [][\A g \in Gens :
       (ws[g] # "connecting" /\ ws'[g] = "connecting") => g \notin cleaned']_vars

\* C30 as claimed: while a presence socket is open and a sessionId is
\* selected its heartbeat interval is armed; the step in which the socket
\* opens with a sessionId selected, and the step in which a sessionId is
\* selected or changed while the socket is open, send a heartbeat that
\* carries the selected sessionId.
C30_Heartbeat ==
  /\ [](\A g \in Gens :
          (hook = "presence" /\ ws[g] = "open" /\ sessionIdRef # Null)
             => g \in intervals)
  /\ [][\A g \in Gens :
          /\ ( /\ hook = "presence"
               /\ ws[g] = "connecting" /\ ws'[g] = "open"
               /\ sessionIdRef # Null ) => beat' = sessionIdRef
          /\ ( /\ hook = "presence"
               /\ ws[g] = "open" /\ ws'[g] = "open" /\ socketRef' = g
               /\ sessionIdRef' # sessionIdRef
               /\ sessionIdRef' # Null ) => beat' = sessionIdRef']_vars

\* --------------------------------------- properties of the presence status

Rank(st) == IF st = "active" THEN 0 ELSE IF st = "viewing" THEN 1 ELSE 2

\* C31: the status computed is active for an elapsed time under 30 s, viewing
\* from exactly 30 s to under 120 s and inactive from exactly 120 s on; and
\* of two successive computations, the one at the larger elapsed time never
\* yields a status closer to active.
C31_StatusMonotone ==
  /\ [](status # Null =>
          /\ (status = "active") <=> (elapsed < 30000)
          /\ (status = "viewing") <=> (30000 <= elapsed /\ elapsed < 120000)
          /\ (status = "inactive") <=> (elapsed >= 120000))
  /\ [][( /\ status # Null
          /\ status' # Null
          /\ elapsed' >= elapsed )
          => Rank(status') >= Rank(status)]_vars

\* the status was computed exactly 30 s and exactly 120 s after the last
\* interaction
C31_Witness ==
  \/ status = "viewing" /\ elapsed = 30000
  \/ status = "inactive" /\ elapsed = 120000

\* ----------------------------------------- properties of the terminal pane

\* C32 as claimed: on every socket the pane opened, the first frame sent is
\* the handshake, and the handshake is sent once.
C32_HandshakeFirst ==
  \A s \in Starts :
    frames[s] # <<>> =>
      /\ frames[s][1] = "h"
      /\ Count(frames[s], {"h"}) = 1

\* a step in which a call of startSession moves
Moves(c) == ppc'[c] # ppc[c]

\* a step in which an attempt of call c ends and leaves the status at error
\* with the status or the message changed
SetsError(c) ==
  /\ ppc[c] \in {"mutate", "connect"}
  /\ Moves(c)
  /\ statusRef' = "error"
  /\ << statusRef, errorRef >>' # << statusRef, errorRef >>

\* C34 as claimed (its safety part): a call makes at most 5 attempts; the
\* wait after the n-th failed attempt is 2000 * n ms, n = 1..4; while a call
\* that is current and mounted waits between two attempts the status is
\* starting and there is no error message; a failed attempt sets the status
\* to error only if it is the 5th; a call that was superseded or whose pane
\* unmounted starts no further attempt.
C34_RetryLoop ==
  /\ [](\A c \in Starts :
          /\ outer[c] < 5
          /\ ppc[c] = "wait" =>
               /\ outer[c] + 1 \in 1..4
               /\ paused[c] = 2000 * (outer[c] + 1)
          /\ (ppc[c] = "wait" /\ ~Stale(c) /\ mountedRef) =>
               (statusRef = "starting" /\ errorRef = Null))
  /\ [][\A c \in Starts :
          /\ SetsError(c) => outer[c] + 1 = 5
          /\ (ppc[c] # "idle" /\ (Stale(c) \/ ~mountedRef) /\ Moves(c))
               => ppc'[c] # "mutate"]_vars

\* a step in which no call moves, the user does nothing, no timer fires and
\* the pane is neither set up nor unmounted: an event of a socket
SocketEventStep ==
  /\ ppc' = ppc
  /\ typed' = typed
  /\ refresh' = refresh
  /\ mountedRef' = mountedRef
  /\ terminalRef' = terminalRef
  /\ connectionIdRef' = connectionIdRef

ReposRoot == AGENT_WORKSPACE \o << REPOS_SUBDIR >>

\* C40 as claimed: every directory cloneOrPull clones into, resets or
\* removes lies inside <workspaceRoot>/repos, two segments below it.
C40_PathInsideRepos ==
  \A i \in DOMAIN ops :
     /\ Len(ops[i].path) = Len(ReposRoot) + 2
     /\ SubSeq(ops[i].path, 1, Len(ReposRoot)) = ReposRoot
====
